---- MODULE Spec2Model ----
(***************************************************************************)
(* Scoring and ranking core of dreamhouse: style similarity, the six       *)
(* match-score factors with weight redistribution, the transact score and  *)
(* the ranking/pagination service (searchProperties).                      *)
(*                                                                         *)
(* Numbers.  The source computes in IEEE doubles; the model computes in    *)
(* exact rationals [n |-> numerator, d |-> denominator > 0] kept in lowest *)
(* terms, so equal numbers are equal records.  The only divisions by zero  *)
(* the source can perform (x / 0 with x > 0, giving Infinity) are modelled *)
(* where they occur.                                                       *)
(*                                                                         *)
(* Strings.  A string is a sequence of one-character strings.              *)
(*                                                                         *)
(* Geography.  Points lie on one meridian (equal lng); lat is the position *)
(* along it counted in tenths of a mile of arc, for which the haversine    *)
(* formula gives exactly the absolute difference of the positions.         *)
(***************************************************************************)
EXTENDS Integers, Sequences, FiniteSets, TLC

VARIABLES
  intent,       \* the ParsedIntent of the request
  property,     \* the Property the scorer was called on
  scoreWeights, \* computeMatchScore's local weights
  out,          \* what the scorer returned
  collection,   \* what getProperties returns: Property[]
  fetched,      \* the responses of searchProperties for pages 1..Len(fetched)
  pc,           \* "input" before the scorer call, "done" after it
  nearbySales,  \* the recentNearbySales flag of the computeTransactScore call
  store,        \* the zustand store of the client (useStore)
  component,    \* ResultsContent: its useState values and its suspended calls
  dataModule,   \* the module-level variables of the property data layer
  disk          \* the contents of real-properties.json

client == <<store, component>>
server == <<dataModule, disk>>

vars ==
  <<intent, property, scoreWeights, out, collection, fetched, pc, nearbySales,
    store, component, dataModule, disk>>

\* null of a nullable number (every modelled number is >= 0), and null of a
\* nullable string (no string has a two-character element)
NULL == 0 - 1
NULLSTR == <<"null">>

\* create(...): the store's initial state (selectedProperty, currentQuery and
\* buyerProfiles, which no modelled handler reads, are left out)
InitStore ==
  store = [searchResults |-> <<>>, isSearching |-> FALSE, currentIntent |-> NULL,
           searchPhase |-> "null", totalResults |-> 0, currentPage |-> 1,
           pageSize |-> 25]

\* ResultsContent before its mount effect: useState(false), useState(null),
\* useRef(false); no call is suspended
InitComponent ==
  component = [isLoadingMore |-> FALSE, isRefining |-> FALSE, error |-> FALSE,
               searchTriggered |-> FALSE, calls |-> {}]

InitClient == InitStore /\ InitComponent

\* no real-properties.json
NoFile == <<[errno |-> "ENOENT"]>>

\* null where an array of properties is expected
NullArray == <<[null |-> TRUE]>>

\* the data layer as loaded: nothing cached, no load attempted, and no
\* ingestion run yet
InitDataModule ==
  dataModule = [cachedRealProperties |-> NullArray,
                realPropertiesLoadAttempted |-> FALSE,
                activeDataSource |-> "seed"]

InitServer ==
  /\ InitDataModule
  /\ disk = NoFile

\* undefined where a number is expected, NaN, and the null that stands
\* where an object (an intent, a property) is expected
UNDEFINED == 0 - 2
NaN == [n |-> 0, d |-> 0]
NullReference == [null |-> TRUE]

\* obj.key: undefined when the object has no such property
read(obj, key) == IF key \in DOMAIN obj THEN obj[key] ELSE UNDEFINED

----------------------------------------------------------------------------
(* Exact rational arithmetic standing for the source's number type         *)

Abs(x) == IF x < 0 THEN -x ELSE x

RECURSIVE GCD(_, _)
GCD(a, b) == IF b = 0 THEN a ELSE GCD(b, a % b)

Rat(n, d) ==
  LET s == IF d < 0 THEN -1 ELSE 1
      g == GCD(Abs(n), Abs(d))
  IN  [n |-> (s * n) \div g, d |-> (s * d) \div g]

RInt(k) == [n |-> k, d |-> 1]

RAdd(x, y) == Rat(x.n * y.d + y.n * x.d, x.d * y.d)
RSub(x, y) == Rat(x.n * y.d - y.n * x.d, x.d * y.d)
RMul(x, y) == Rat(x.n * y.n, x.d * y.d)
RDiv(x, y) == Rat(x.n * y.d, x.d * y.n)
RLe(x, y) == x.n * y.d <= y.n * x.d
RLt(x, y) == x.n * y.d < y.n * x.d
RGe(x, y) == RLe(y, x)
RGt(x, y) == RLt(y, x)
RMax(x, y) == IF RLt(x, y) THEN y ELSE x
RMin(x, y) == IF RLt(y, x) THEN y ELSE x

\* Math.round(x * 100) / 100: round half up to two decimals
Round2(x) == Rat((200 * x.n + x.d) \div (2 * x.d), 100)

----------------------------------------------------------------------------
(* styleMap: normalizeStyle, styleSimilarity, bestStyleMatch               *)

UPPER == <<"A","B","C","D","E","F","G","H","I","J","K","L","M",
           "N","O","P","Q","R","S","T","U","V","W","X","Y","Z">>
LOWER == <<"a","b","c","d","e","f","g","h","i","j","k","l","m",
           "n","o","p","q","r","s","t","u","v","w","x","y","z">>

IsSpace(c) == c \in {" ", "\t"}

\* the lower-case letter of every upper-case letter
lowerCaseOf ==
  [c \in {UPPER[k] : k \in 1..Len(UPPER)} |->
     LOWER[CHOOSE k \in 1..Len(UPPER) : UPPER[k] = c]]

toLowerCase(s) ==
  [i \in 1..Len(s) |->
     IF s[i] \in DOMAIN lowerCaseOf THEN lowerCaseOf[s[i]] ELSE s[i]]

\* variant: one leading whitespace character is removed
trimStartOnce(s) == IF s # <<>> /\ IsSpace(Head(s)) THEN Tail(s) ELSE s

RECURSIVE trimStart(_)
trimStart(s) ==
  IF s # <<>> /\ IsSpace(Head(s)) THEN trimStart(Tail(s)) ELSE s

RECURSIVE trimEnd(_)
trimEnd(s) ==
  IF s # <<>> /\ IsSpace(s[Len(s)]) THEN trimEnd(SubSeq(s, 1, Len(s) - 1)) ELSE s

trim(s) == trimEnd(trimStart(s))

\* s.replace(/\s+/g, " "): every maximal run of whitespace becomes one space
RECURSIVE collapseSpaces(_)
collapseSpaces(s) ==
  IF s = <<>> THEN <<>>
  ELSE IF IsSpace(Head(s))
       THEN <<" ">> \o collapseSpaces(trimStart(s))
       ELSE <<Head(s)>> \o collapseSpaces(Tail(s))

normalizeStyle(style) == collapseSpaces(toLowerCase(trim(style)))

STYLE_SIMILARITY ==
  << << <<"m","i","d","-","c","e","n","t","u","r","y"," ","m","o","d","e","r","n">>,
        << <<"m","o","d","e","r","n">>,
           <<"c","o","n","t","e","m","p","o","r","a","r","y">>,
           <<"a","t","o","m","i","c"," ","r","a","n","c","h">>,
           <<"r","e","t","r","o"," ","m","o","d","e","r","n">>,
           <<"p","o","s","t"," ","a","n","d"," ","b","e","a","m">> >> >>,
     << <<"m","o","d","e","r","n">>,
        << <<"m","i","d","-","c","e","n","t","u","r","y"," ","m","o","d","e","r","n">>,
           <<"c","o","n","t","e","m","p","o","r","a","r","y">>,
           <<"m","i","n","i","m","a","l","i","s","t">>,
           <<"i","n","t","e","r","n","a","t","i","o","n","a","l"," ","s","t","y","l","e">> >> >>,
     << <<"c","o","n","t","e","m","p","o","r","a","r","y">>,
        << <<"m","o","d","e","r","n">>,
           <<"m","i","d","-","c","e","n","t","u","r","y"," ","m","o","d","e","r","n">>,
           <<"n","o","r","t","h","w","e","s","t"," ","c","o","n","t","e","m","p","o","r","a","r","y">>,
           <<"m","i","n","i","m","a","l","i","s","t">> >> >>,
     << <<"n","o","r","t","h","w","e","s","t"," ","c","o","n","t","e","m","p","o","r","a","r","y">>,
        << <<"c","o","n","t","e","m","p","o","r","a","r","y">>,
           <<"m","o","d","e","r","n">>,
           <<"p","a","c","i","f","i","c"," ","n","o","r","t","h","w","e","s","t">>,
           <<"n","o","r","t","h","w","e","s","t"," ","l","o","d","g","e">> >> >>,
     << <<"c","r","a","f","t","s","m","a","n">>,
        << <<"b","u","n","g","a","l","o","w">>,
           <<"a","r","t","s"," ","a","n","d"," ","c","r","a","f","t","s">>,
           <<"a","m","e","r","i","c","a","n"," ","f","o","u","r","s","q","u","a","r","e">>,
           <<"s","e","a","t","t","l","e"," ","b","o","x">> >> >>,
     << <<"b","u","n","g","a","l","o","w">>,
        << <<"c","r","a","f","t","s","m","a","n">>,
           <<"a","r","t","s"," ","a","n","d"," ","c","r","a","f","t","s">>,
           <<"c","o","t","t","a","g","e">> >> >>,
     << <<"a","r","t","s"," ","a","n","d"," ","c","r","a","f","t","s">>,
        << <<"c","r","a","f","t","s","m","a","n">>,
           <<"b","u","n","g","a","l","o","w">>,
           <<"m","i","s","s","i","o","n">> >> >>,
     << <<"c","o","l","o","n","i","a","l">>,
        << <<"d","u","t","c","h"," ","c","o","l","o","n","i","a","l">>,
           <<"g","e","o","r","g","i","a","n">>,
           <<"f","e","d","e","r","a","l">>,
           <<"c","a","p","e"," ","c","o","d">>,
           <<"t","r","a","d","i","t","i","o","n","a","l">> >> >>,
     << <<"d","u","t","c","h"," ","c","o","l","o","n","i","a","l">>,
        << <<"c","o","l","o","n","i","a","l">>,
           <<"t","r","a","d","i","t","i","o","n","a","l">>,
           <<"c","a","p","e"," ","c","o","d">> >> >>,
     << <<"t","u","d","o","r">>,
        << <<"e","n","g","l","i","s","h"," ","c","o","t","t","a","g","e">>,
           <<"s","t","o","r","y","b","o","o","k">>,
           <<"t","r","a","d","i","t","i","o","n","a","l">>,
           <<"e","u","r","o","p","e","a","n">> >> >>,
     << <<"v","i","c","t","o","r","i","a","n">>,
        << <<"q","u","e","e","n"," ","a","n","n","e">>,
           <<"i","t","a","l","i","a","n","a","t","e">>,
           <<"p","a","i","n","t","e","d"," ","l","a","d","y">>,
           <<"o","r","n","a","t","e">> >> >>,
     << <<"q","u","e","e","n"," ","a","n","n","e">>,
        << <<"v","i","c","t","o","r","i","a","n">>,
           <<"p","a","i","n","t","e","d"," ","l","a","d","y">>,
           <<"i","t","a","l","i","a","n","a","t","e">> >> >>,
     << <<"f","a","r","m","h","o","u","s","e">>,
        << <<"m","o","d","e","r","n"," ","f","a","r","m","h","o","u","s","e">>,
           <<"c","o","u","n","t","r","y">>,
           <<"r","a","n","c","h">>,
           <<"r","u","r","a","l">> >> >>,
     << <<"m","o","d","e","r","n"," ","f","a","r","m","h","o","u","s","e">>,
        << <<"f","a","r","m","h","o","u","s","e">>,
           <<"c","o","n","t","e","m","p","o","r","a","r","y">>,
           <<"t","r","a","n","s","i","t","i","o","n","a","l">> >> >>,
     << <<"r","a","n","c","h">>,
        << <<"r","a","m","b","l","e","r">>,
           <<"s","p","l","i","t"," ","l","e","v","e","l">>,
           <<"m","i","d","-","c","e","n","t","u","r","y"," ","m","o","d","e","r","n">>,
           <<"a","t","o","m","i","c"," ","r","a","n","c","h">> >> >>,
     << <<"s","p","l","i","t"," ","l","e","v","e","l">>,
        << <<"r","a","n","c","h">>,
           <<"r","a","m","b","l","e","r">>,
           <<"t","r","i","-","l","e","v","e","l">> >> >>,
     << <<"c","a","p","e"," ","c","o","d">>,
        << <<"c","o","l","o","n","i","a","l">>,
           <<"t","r","a","d","i","t","i","o","n","a","l">>,
           <<"c","o","t","t","a","g","e">>,
           <<"n","e","w"," ","e","n","g","l","a","n","d">> >> >>,
     << <<"c","o","t","t","a","g","e">>,
        << <<"b","u","n","g","a","l","o","w">>,
           <<"c","a","p","e"," ","c","o","d">>,
           <<"e","n","g","l","i","s","h"," ","c","o","t","t","a","g","e">>,
           <<"s","t","o","r","y","b","o","o","k">> >> >>,
     << <<"e","n","g","l","i","s","h"," ","c","o","t","t","a","g","e">>,
        << <<"c","o","t","t","a","g","e">>,
           <<"t","u","d","o","r">>,
           <<"s","t","o","r","y","b","o","o","k">> >> >>,
     << <<"m","e","d","i","t","e","r","r","a","n","e","a","n">>,
        << <<"s","p","a","n","i","s","h">>,
           <<"m","i","s","s","i","o","n">>,
           <<"i","t","a","l","i","a","n"," ","v","i","l","l","a">>,
           <<"t","u","s","c","a","n">> >> >>,
     << <<"s","p","a","n","i","s","h">>,
        << <<"m","e","d","i","t","e","r","r","a","n","e","a","n">>,
           <<"m","i","s","s","i","o","n">>,
           <<"s","p","a","n","i","s","h"," ","c","o","l","o","n","i","a","l">> >> >>,
     << <<"m","i","s","s","i","o","n">>,
        << <<"s","p","a","n","i","s","h">>,
           <<"m","e","d","i","t","e","r","r","a","n","e","a","n">>,
           <<"a","r","t","s"," ","a","n","d"," ","c","r","a","f","t","s">> >> >>,
     << <<"p","a","c","i","f","i","c"," ","n","o","r","t","h","w","e","s","t">>,
        << <<"n","o","r","t","h","w","e","s","t"," ","c","o","n","t","e","m","p","o","r","a","r","y">>,
           <<"n","o","r","t","h","w","e","s","t"," ","l","o","d","g","e">>,
           <<"c","o","n","t","e","m","p","o","r","a","r","y">> >> >>,
     << <<"n","o","r","t","h","w","e","s","t"," ","l","o","d","g","e">>,
        << <<"p","a","c","i","f","i","c"," ","n","o","r","t","h","w","e","s","t">>,
           <<"n","o","r","t","h","w","e","s","t"," ","c","o","n","t","e","m","p","o","r","a","r","y">>,
           <<"c","a","b","i","n">> >> >>,
     << <<"m","i","n","i","m","a","l","i","s","t">>,
        << <<"m","o","d","e","r","n">>,
           <<"c","o","n","t","e","m","p","o","r","a","r","y">>,
           <<"s","c","a","n","d","i","n","a","v","i","a","n">> >> >>,
     << <<"s","c","a","n","d","i","n","a","v","i","a","n">>,
        << <<"m","i","n","i","m","a","l","i","s","t">>,
           <<"m","o","d","e","r","n">>,
           <<"n","o","r","d","i","c">> >> >>,
     << <<"t","r","a","n","s","i","t","i","o","n","a","l">>,
        << <<"t","r","a","d","i","t","i","o","n","a","l">>,
           <<"c","o","n","t","e","m","p","o","r","a","r","y">>,
           <<"m","o","d","e","r","n"," ","f","a","r","m","h","o","u","s","e">> >> >>,
     << <<"t","r","a","d","i","t","i","o","n","a","l">>,
        << <<"c","o","l","o","n","i","a","l">>,
           <<"t","r","a","n","s","i","t","i","o","n","a","l">>,
           <<"c","a","p","e"," ","c","o","d">>,
           <<"g","e","o","r","g","i","a","n">> >> >>,
     << <<"s","e","a","t","t","l","e"," ","b","o","x">>,
        << <<"c","r","a","f","t","s","m","a","n">>,
           <<"a","m","e","r","i","c","a","n"," ","f","o","u","r","s","q","u","a","r","e">> >> >>,
     << <<"a","m","e","r","i","c","a","n"," ","f","o","u","r","s","q","u","a","r","e">>,
        << <<"c","r","a","f","t","s","m","a","n">>,
           <<"s","e","a","t","t","l","e"," ","b","o","x">>,
           <<"t","r","a","d","i","t","i","o","n","a","l">> >> >>,
     << <<"c","a","b","i","n">>,
        << <<"n","o","r","t","h","w","e","s","t"," ","l","o","d","g","e">>,
           <<"r","u","s","t","i","c">>,
           <<"l","o","g"," ","h","o","m","e">> >> >>,
     << <<"r","u","s","t","i","c">>,
        << <<"c","a","b","i","n">>,
           <<"l","o","g"," ","h","o","m","e">>,
           <<"f","a","r","m","h","o","u","s","e">> >> >>,
     << <<"t","o","w","n","h","o","u","s","e">>,
        << <<"u","r","b","a","n">>,
           <<"r","o","w"," ","h","o","u","s","e">> >> >>,
     << <<"i","n","d","u","s","t","r","i","a","l">>,
        << <<"l","o","f","t">>,
           <<"m","o","d","e","r","n">>,
           <<"u","r","b","a","n">> >> >>,
     << <<"l","o","f","t">>,
        << <<"i","n","d","u","s","t","r","i","a","l">>,
           <<"u","r","b","a","n">>,
           <<"m","o","d","e","r","n">> >> >> >>

\* STYLE_SIMILARITY as the lookup it is used for
recordOf(entries) ==
  [key \in {entries[k][1] : k \in 1..Len(entries)} |->
     entries[CHOOSE k \in 1..Len(entries) : entries[k][1] = key][2]]

styleTable == recordOf(STYLE_SIMILARITY)

\* the names every object literal inherits from Object.prototype
ObjectPrototypeKeys ==
  { <<"c","o","n","s","t","r","u","c","t","o","r">>,
    <<"_","_","p","r","o","t","o","_","_">>,
    <<"h","a","s","O","w","n","P","r","o","p","e","r","t","y">>,
    <<"i","s","P","r","o","t","o","t","y","p","e","O","f">>,
    <<"p","r","o","p","e","r","t","y","I","s","E","n","u","m","e","r","a","b","l","e">>,
    <<"t","o","L","o","c","a","l","e","S","t","r","i","n","g">>,
    <<"t","o","S","t","r","i","n","g">>,
    <<"v","a","l","u","e","O","f">>,
    <<"_","_","d","e","f","i","n","e","G","e","t","t","e","r","_","_">>,
    <<"_","_","d","e","f","i","n","e","S","e","t","t","e","r","_","_">>,
    <<"_","_","l","o","o","k","u","p","G","e","t","t","e","r","_","_">>,
    <<"_","_","l","o","o","k","u","p","S","e","t","t","e","r","_","_">> }

\* what the lookup of an inherited name gives: a function or an object, not
\* an array (it has no includes method)
NotAnArray == << <<"Object.prototype">> >>

\* the outcome of a call that ends with a TypeError
TypeError == [thrown |-> "TypeError"]

\* table[key] ?? []
lookup(table, key) ==
  IF key \in DOMAIN table THEN table[key]
  ELSE IF key \in ObjectPrototypeKeys THEN NotAnArray
  ELSE <<>>

\* STYLE_SIMILARITY[key] ?? []
relatedTo(key) == lookup(styleTable, key)

\* Array.prototype.includes
arrayIncludes(list, x) == \E i \in 1..Len(list) : list[i] = x

\* the body of styleSimilarity on the normalized styles a and b; calling
\* includes on what is not an array throws
similarityOf(a, b, relatedToA, relatedToB) ==
  IF a = b THEN RInt(1)
  ELSE IF relatedToA = NotAnArray THEN TypeError
  ELSE IF arrayIncludes(relatedToA, b) THEN Rat(1, 2)
  ELSE IF relatedToB = NotAnArray THEN TypeError
  ELSE IF arrayIncludes(relatedToB, a) THEN Rat(1, 2)
  ELSE RInt(0)

normalizedSimilarity(a, b) == similarityOf(a, b, relatedTo(a), relatedTo(b))

\* variant: only the list of styleA is consulted
styleSimilarityOneWay(styleA, styleB) ==
  similarityOf(normalizeStyle(styleA), normalizeStyle(styleB),
               relatedTo(normalizeStyle(styleA)), <<>>)

styleSimilarity(styleA, styleB) ==
  normalizedSimilarity(normalizeStyle(styleA), normalizeStyle(styleB))

\* the for loop of bestStyleMatch from index i on, with its break at 1.0; an
\* exception of styleSimilarity ends the loop and the call
RECURSIVE bestStyleLoop(_, _, _, _)
RECURSIVE bestStyleStep(_, _, _, _, _)
bestStyleStep(desiredStyles, propertyStyle, i, best, score) ==
  IF score = TypeError THEN TypeError
  ELSE IF RGt(score, best)
       THEN (IF score = RInt(1) THEN score
             ELSE bestStyleLoop(desiredStyles, propertyStyle, i + 1, score))
  ELSE IF best = RInt(1) THEN best
  ELSE bestStyleLoop(desiredStyles, propertyStyle, i + 1, best)

bestStyleLoop(desiredStyles, propertyStyle, i, best) ==
  IF i > Len(desiredStyles) THEN best
  ELSE bestStyleStep(desiredStyles, propertyStyle, i, best,
                     styleSimilarity(desiredStyles[i], propertyStyle))

\* !propertyStyle: null and the empty string are falsy
bestStyleMatch(desiredStyles, propertyStyle) ==
  IF propertyStyle = NULLSTR \/ propertyStyle = <<>> \/ Len(desiredStyles) = 0
  THEN RInt(0)
  ELSE bestStyleLoop(desiredStyles, propertyStyle, 1, RInt(0))

----------------------------------------------------------------------------
(* haversine, for two points of the same meridian: EARTH_RADIUS_MILES * c  *)
(* with c = |dLat| in radians, which in the model's unit of lat is         *)
(* |lat2 - lat1| / 10 miles                                                *)

\* arithmetic on undefined gives NaN
haversineDistance(lat1, lng1, lat2, lng2) ==
  IF UNDEFINED \in {lat1, lng1, lat2, lng2} THEN NaN
  ELSE Rat(Abs(lat2 - lat1), 10)

----------------------------------------------------------------------------
(* matchScore                                                              *)

FactorKeys == <<"location", "budget", "style", "features", "bedsBaths", "sqft">>

BASE_WEIGHTS ==
  [location |-> Rat(25, 100), budget |-> Rat(20, 100), style |-> Rat(20, 100),
   features |-> Rat(15, 100), bedsBaths |-> Rat(10, 100), sqft |-> Rat(10, 100)]

\* a member access on null or undefined in getSpecifiedFactors; the ||
\* chain reads intent.baths only when beds is unspecified
specifiedFactorsThrow(i) ==
  \/ i = NullReference
  \/ \E field \in {"locations", "budget", "styles", "features", "beds", "sqft"} :
        field \notin DOMAIN i
  \/ "baths" \notin DOMAIN i /\ i.beds.min = NULL /\ i.beds.max = NULL

getSpecifiedFactors(i) ==
  IF specifiedFactorsThrow(i) THEN TypeError
  ELSE
  [location  |-> Len(i.locations) > 0,
   budget    |-> i.budget.min # NULL \/ i.budget.max # NULL,
   style     |-> Len(i.styles) > 0,
   features  |-> Len(i.features) > 0,
   bedsBaths |-> \/ i.beds.min # NULL \/ i.beds.max # NULL
                 \/ i.baths.min # NULL \/ i.baths.max # NULL,
   sqft      |-> i.sqft.min # NULL \/ i.sqft.max # NULL]

\* specifiedKeys.reduce((sum, k) => sum + BASE_WEIGHTS[k], 0) over keys k..6
RECURSIVE sumSpecified(_, _)
sumSpecified(specified, k) ==
  IF k > Len(FactorKeys) THEN RInt(0)
  ELSE RAdd(IF specified[FactorKeys[k]] THEN BASE_WEIGHTS[FactorKeys[k]] ELSE RInt(0),
            sumSpecified(specified, k + 1))

\* variant: the base weights whatever the intent specifies
getRedistributedWeightsUnscaled(i) == BASE_WEIGHTS

getRedistributedWeights(i) ==
  LET specified == getSpecifiedFactors(i)
      totalSpecifiedWeight == sumSpecified(specified, 1)
  IN  IF specified = TypeError THEN TypeError
      ELSE IF \A k \in 1..Len(FactorKeys) : ~specified[FactorKeys[k]]
      THEN BASE_WEIGHTS
      ELSE [key \in DOMAIN BASE_WEIGHTS |->
              IF specified[key]
              THEN RDiv(BASE_WEIGHTS[key], totalSpecifiedWeight)
              ELSE RInt(0)]

\* the score of one target location at distance dist; every comparison
\* with NaN is false, which leaves the last branch
locScore(dist, radius) ==
  IF dist = NaN THEN RInt(0)
  ELSE IF RLe(dist, Rat(1, 10)) THEN RInt(100)
  ELSE IF RLe(dist, radius)
       THEN RMax(RInt(0), RSub(RInt(100), RMul(RDiv(dist, radius), RInt(40))))
  ELSE IF RLe(dist, RMul(radius, RInt(2)))
       THEN RMax(RInt(0),
                 RMul(RInt(60), RSub(RInt(1), RDiv(RSub(dist, radius), radius))))
  ELSE RInt(0)

\* loc.radiusMiles || 2
radiusOf(loc) == IF loc.radiusMiles = 0 THEN RInt(2) ELSE RInt(loc.radiusMiles)

\* variant: every target overwrites the best score; the last one wins
RECURSIVE bestLocationLoopLast(_, _, _, _)
bestLocationLoopLast(p, locations, i, bestScore) ==
  IF i > Len(locations) THEN bestScore
  ELSE LET loc == locations[i]
           dist == haversineDistance(read(p, "lat"), read(p, "lng"), loc.lat, loc.lng)
       IN  bestLocationLoopLast(p, locations, i + 1, locScore(dist, radiusOf(loc)))

\* the for loop of scoreLocation from index i on
RECURSIVE bestLocationLoop(_, _, _, _)
bestLocationLoop(p, locations, i, bestScore) ==
  IF i > Len(locations) THEN bestScore
  ELSE LET loc == locations[i]
           dist == haversineDistance(read(p, "lat"), read(p, "lng"), loc.lat, loc.lng)
           s == locScore(dist, radiusOf(loc))
       IN  bestLocationLoop(p, locations, i + 1,
                            IF RGt(s, bestScore) THEN s ELSE bestScore)

scoreLocation(p, i) ==
  IF Len(i.locations) = 0 THEN RInt(50)
  ELSE bestLocationLoop(p, i.locations, 1, RInt(0))

\* variant: the decay without its Math.max(0, ...)
linearDecayUnclamped(diff, bound) ==
  IF bound = 0 THEN RInt(0)
  ELSE RMul(RInt(100), RSub(RInt(1), Rat(diff, bound)))

\* Math.max(0, 100 * (1 - diff / bound)); for bound = 0 and diff > 0 the
\* source's diff / bound is Infinity and the result 0
linearDecay(diff, bound) ==
  IF bound = 0 THEN RInt(0)
  ELSE RMax(RInt(0), RMul(RInt(100), RSub(RInt(1), Rat(diff, bound))))

\* property.listingPrice ?? property.estimatedValue
priceOf(p) == IF p.listingPrice # NULL THEN p.listingPrice ELSE p.estimatedValue

\* variant: the comparison with min overwrites the score of the comparison
\* with max
scoreBudgetLastCheck(p, i) ==
  LET price == priceOf(p)
      min == i.budget.min
      max == i.budget.max
      afterMax == IF max # NULL /\ price > max
                  THEN linearDecay(price - max, max) ELSE RInt(100)
  IN  IF price = NULL \/ price = 0 THEN RInt(50)
      ELSE IF min = NULL /\ max = NULL THEN RInt(50)
      ELSE IF min # NULL /\ price < min
           THEN linearDecay(min - price, min)
           ELSE afterMax

\* variant: a property without a price scores 0
scoreBudgetUnknownPriceZero(p, i) ==
  LET price == priceOf(p)
      min == i.budget.min
      max == i.budget.max
      afterMax == IF max # NULL /\ price > max
                  THEN linearDecay(price - max, max) ELSE RInt(100)
  IN  IF price = NULL \/ price = 0 THEN RInt(0)
      ELSE IF min = NULL /\ max = NULL THEN RInt(50)
      ELSE IF min # NULL /\ price < min
           THEN RMin(afterMax, linearDecay(min - price, min))
           ELSE afterMax

scoreBudget(p, i) ==
  LET price == priceOf(p)
      min == i.budget.min
      max == i.budget.max
      afterMax == IF max # NULL /\ price > max
                  THEN linearDecay(price - max, max) ELSE RInt(100)
  IN  IF price = NULL \/ price = 0 THEN RInt(50)
      ELSE IF min = NULL /\ max = NULL THEN RInt(50)
      ELSE IF min # NULL /\ price < min
           THEN RMin(afterMax, linearDecay(min - price, min))
           ELSE afterMax

\* variant: the unknown-style check comes before the no-preference check
scoreStyleUnknownFirst(p, i) ==
  IF p.architecturalStyle = NULLSTR \/ p.architecturalStyle = <<>> THEN RInt(25)
  ELSE IF Len(i.styles) = 0 THEN RInt(50)
  ELSE LET similarity == bestStyleMatch(i.styles, p.architecturalStyle)
       IN  IF similarity = RInt(1) THEN RInt(100)
           ELSE IF RGe(similarity, Rat(1, 2)) THEN RInt(50)
           ELSE RInt(0)

\* 100 for an exact match, 50 for a related style, 0 otherwise; an exception
\* of bestStyleMatch passes through
styleScoreOf(similarity) ==
  IF similarity = TypeError THEN TypeError
  ELSE IF similarity = RInt(1) THEN RInt(100)
  ELSE IF RGe(similarity, Rat(1, 2)) THEN RInt(50)
  ELSE RInt(0)

scoreStyle(p, i) ==
  IF Len(i.styles) = 0 THEN RInt(50)
  ELSE IF p.architecturalStyle = NULLSTR \/ p.architecturalStyle = <<>> THEN RInt(25)
  ELSE styleScoreOf(bestStyleMatch(i.styles, p.architecturalStyle))

\* String.prototype.includes
stringIncludes(s, sub) ==
  \E k \in 1..(Len(s) - Len(sub) + 1) : SubSeq(s, k, k + Len(sub) - 1) = sub

\* variant: a desired feature is found only inside a property feature
featureFoundInTag(propertyFeatures, desired) ==
  LET normalized == normalizeStyle(desired)
  IN  \E k \in 1..Len(propertyFeatures) :
         stringIncludes(propertyFeatures[k], normalized)

featureFound(propertyFeatures, desired) ==
  LET normalized == normalizeStyle(desired)
  IN  \E k \in 1..Len(propertyFeatures) :
         \/ stringIncludes(propertyFeatures[k], normalized)
         \/ stringIncludes(normalized, propertyFeatures[k])

scoreFeatures(p, i) ==
  IF Len(i.features) = 0 THEN RInt(50)
  ELSE LET propertyFeatures == [k \in 1..Len(p.features) |-> normalizeStyle(p.features[k])]
           matchCount == Cardinality({k \in 1..Len(i.features) :
                                        featureFound(propertyFeatures, i.features[k])})
       IN  RMul(Rat(matchCount, Len(i.features)), RInt(100))

\* diff 0 or 1 -> 100, 2 -> 50, more -> 0
countScore(diff) == IF diff <= 1 THEN 100 ELSE IF diff <= 2 THEN 50 ELSE 0

\* min ?? max ?? actual
targetOf(range, actual) ==
  IF range.min # NULL THEN range.min
  ELSE IF range.max # NULL THEN range.max ELSE actual

\* variant: every count below the minimum scores 0
bedScoreOfBelowMinZero(p, i) ==
  LET base == countScore(Abs(p.bedrooms - targetOf(i.beds, p.bedrooms)))
  IN  IF i.beds.min # NULL /\ p.bedrooms < i.beds.min THEN 0 ELSE base

bedScoreOf(p, i) ==
  LET base == countScore(Abs(p.bedrooms - targetOf(i.beds, p.bedrooms)))
  IN  IF i.beds.min # NULL /\ p.bedrooms < i.beds.min
      THEN LET belowDiff == i.beds.min - p.bedrooms
           IN  IF belowDiff > 2 THEN 0
               ELSE IF belowDiff > 1 THEN (IF base < 50 THEN base ELSE 50)
               ELSE base
      ELSE base

bathScoreOf(p, i) == countScore(Abs(p.bathrooms - targetOf(i.baths, p.bathrooms)))

\* variant: the baths block is a copy of the beds block that still reads
\* intent.beds
scoreBedsBathsCopied(p, i) ==
  LET bedsSpecified == i.beds.min # NULL \/ i.beds.max # NULL
      bathsSpecified == i.baths.min # NULL \/ i.baths.max # NULL
      bedScore == IF bedsSpecified THEN bedScoreOf(p, i) ELSE 50
      bathScore == IF bedsSpecified
                   THEN countScore(Abs(p.bathrooms - targetOf(i.beds, p.bathrooms)))
                   ELSE 50
  IN  IF ~bedsSpecified /\ ~bathsSpecified THEN RInt(50)
      ELSE Rat(bedScore + bathScore, 2)

scoreBedsBaths(p, i) ==
  LET bedsSpecified == i.beds.min # NULL \/ i.beds.max # NULL
      bathsSpecified == i.baths.min # NULL \/ i.baths.max # NULL
      bedScore == IF bedsSpecified THEN bedScoreOf(p, i) ELSE 50
      bathScore == IF bathsSpecified THEN bathScoreOf(p, i) ELSE 50
  IN  IF ~bedsSpecified /\ ~bathsSpecified THEN RInt(50)
      ELSE Rat(bedScore + bathScore, 2)

\* variant: the deficit below min is taken relative to the actual sqft
scoreSqftDeficitOfActual(p, i) ==
  LET sqft == p.sqft
      min == i.sqft.min
      max == i.sqft.max
  IN  IF min = NULL /\ max = NULL THEN RInt(50)
      ELSE IF sqft = 0 THEN RInt(50)
      ELSE IF min # NULL /\ max # NULL
           THEN IF sqft >= min /\ sqft <= max THEN RInt(100)
                ELSE IF sqft < min THEN linearDecay(min - sqft, sqft)
                ELSE linearDecay(sqft - max, max)
      ELSE IF min # NULL /\ sqft < min THEN linearDecay(min - sqft, sqft)
      ELSE IF max # NULL /\ sqft > max THEN linearDecay(sqft - max, max)
      ELSE RInt(100)

scoreSqft(p, i) ==
  LET sqft == p.sqft
      min == i.sqft.min
      max == i.sqft.max
  IN  IF min = NULL /\ max = NULL THEN RInt(50)
      ELSE IF sqft = 0 THEN RInt(50)
      ELSE IF min # NULL /\ max # NULL
           THEN IF sqft >= min /\ sqft <= max THEN RInt(100)
                ELSE IF sqft < min THEN linearDecay(min - sqft, min)
                ELSE linearDecay(sqft - max, max)
      ELSE IF min # NULL /\ sqft < min THEN linearDecay(min - sqft, min)
      ELSE IF max # NULL /\ sqft > max THEN linearDecay(sqft - max, max)
      ELSE RInt(100)

FactorNames == <<"Location", "Budget", "Style", "Features", "Beds/Baths", "Sqft">>

\* the six sub-scores, in the order of the factors array
factorScores(p, i) ==
  <<scoreLocation(p, i), scoreBudget(p, i), scoreStyle(p, i),
    scoreFeatures(p, i), scoreBedsBaths(p, i), scoreSqft(p, i)>>

RECURSIVE weightedSum(_, _, _)
weightedSum(scores, weights, k) ==
  IF k > Len(FactorKeys) THEN RInt(0)
  ELSE RAdd(RMul(scores[k], weights[FactorKeys[k]]),
            weightedSum(scores, weights, k + 1))

\* the kind of summary built from the strong (>= 75) and weak (< 50) factors
overallReasonOf(scores) ==
  LET strong == {k \in 1..Len(scores) : RGe(scores[k], RInt(75))}
      weak == {k \in 1..Len(scores) : RLt(scores[k], RInt(50))}
  IN  IF Cardinality(strong) >= 4 THEN [kind |-> "strong", on |-> strong, weaker |-> {}]
      ELSE IF Cardinality(strong) >= 2
           THEN [kind |-> "good", on |-> strong, weaker |-> weak]
      ELSE IF Cardinality(strong) >= 1
           THEN [kind |-> "partial", on |-> strong, weaker |-> {}]
      ELSE [kind |-> "weak", on |-> {}, weaker |-> {}]

\* a member access on null or undefined in the factor scorers: scoreBudget
\* reads property.listingPrice, scoreBedsBaths reads intent.baths.min
scorersThrow(p, i) == p = NullReference \/ "baths" \notin DOMAIN i

\* an exception of getRedistributedWeights or of a scorer ends the call
computeMatchScore(p, i) ==
  IF getRedistributedWeights(i) = TypeError \/ scorersThrow(p, i) THEN TypeError
  ELSE IF scoreStyle(p, i) = TypeError THEN TypeError
  ELSE
  LET weights == getRedistributedWeights(i)
      scores == factorScores(p, i)
      factors == [k \in 1..Len(FactorNames) |->
                    [name |-> FactorNames[k],
                     score |-> scores[k],
                     matched |-> RGt(weights[FactorKeys[k]], RInt(0))
                                 /\ RGe(scores[k], RInt(50))]]
      overallScore == weightedSum(scores, weights, 1)
  IN  [score |-> Round2(overallScore),
       explanation |-> [overallReason |-> overallReasonOf(scores),
                        factors |-> factors]]

----------------------------------------------------------------------------
(* transactScore                                                           *)

\* new Date().getFullYear() at module load
CURRENT_YEAR == 2026

\* permitHistory.some(permit => CURRENT_YEAR - year(permit.date) <= 5); an
\* unparsable date has year NaN (NULL here) and compares false
hasRecentPermits(p) ==
  \E k \in 1..Len(p.permitHistory) :
     /\ p.permitHistory[k].date # NULL
     /\ CURRENT_YEAR - p.permitHistory[k].date <= 5

\* property.yearBuilt ? CURRENT_YEAR - property.yearBuilt : null
homeAgeOf(p) ==
  IF p.yearBuilt = NULL \/ p.yearBuilt = 0 THEN NULL ELSE CURRENT_YEAR - p.yearBuilt

\* the triggered rules in source order, each with its points
\* variant: owning for more than 15 years scores 10 in place of the 20
transactRulesLongTermInstead(p, recentNearbySales) ==
  (IF p.ownershipYears # NULL /\ p.ownershipYears > 15
   THEN <<[signal |-> "owner>15", points |-> 10]>>
   ELSE IF p.ownershipYears # NULL /\ p.ownershipYears > 10
   THEN <<[signal |-> "owner>10", points |-> 20]>>
   ELSE <<>>)
  \o (IF p.absenteeOwner THEN <<[signal |-> "absentee", points |-> 15]>> ELSE <<>>)
  \o (IF p.equityEstimate # NULL /\ p.equityEstimate > 50
      THEN <<[signal |-> "equity", points |-> 10]>> ELSE <<>>)
  \o (IF p.taxStatus = "delinquent"
      THEN <<[signal |-> "delinquent", points |-> 15]>> ELSE <<>>)
  \o (IF recentNearbySales THEN <<[signal |-> "nearby", points |-> 5]>> ELSE <<>>)
  \o (IF ~hasRecentPermits(p) /\ homeAgeOf(p) # NULL /\ homeAgeOf(p) > 30
      THEN <<[signal |-> "no-permits", points |-> 10]>> ELSE <<>>)
  \o (IF p.listingStatus = "off_market"
      THEN <<[signal |-> "off-market", points |-> 5]>> ELSE <<>>)

transactRules(p, recentNearbySales) ==
  (IF p.ownershipYears # NULL /\ p.ownershipYears > 10
   THEN <<[signal |-> "owner>10", points |-> 20]>>
        \o (IF p.ownershipYears > 15
            THEN <<[signal |-> "owner>15", points |-> 10]>> ELSE <<>>)
   ELSE <<>>)
  \o (IF p.absenteeOwner THEN <<[signal |-> "absentee", points |-> 15]>> ELSE <<>>)
  \o (IF p.equityEstimate # NULL /\ p.equityEstimate > 50
      THEN <<[signal |-> "equity", points |-> 10]>> ELSE <<>>)
  \o (IF p.taxStatus = "delinquent"
      THEN <<[signal |-> "delinquent", points |-> 15]>> ELSE <<>>)
  \o (IF recentNearbySales THEN <<[signal |-> "nearby", points |-> 5]>> ELSE <<>>)
  \o (IF ~hasRecentPermits(p) /\ homeAgeOf(p) # NULL /\ homeAgeOf(p) > 30
      THEN <<[signal |-> "no-permits", points |-> 10]>> ELSE <<>>)
  \o (IF p.listingStatus = "off_market"
      THEN <<[signal |-> "off-market", points |-> 5]>> ELSE <<>>)

\* variant: every rule assigns its points to the score (= for +=)
sumPointsLast(rules) == IF rules = <<>> THEN 0 ELSE rules[Len(rules)].points

RECURSIVE sumPoints(_)
sumPoints(rules) ==
  IF rules = <<>> THEN 0 ELSE Head(rules).points + sumPoints(Tail(rules))

\* variant: the level high starts at 60
computeTransactScoreHighAt60(p, recentNearbySales) ==
  LET rules == transactRules(p, recentNearbySales)
      raw == sumPoints(rules)
      score == IF raw > 100 THEN 100 ELSE raw
  IN  [score |-> score,
       level |-> IF score >= 60 THEN "high"
                 ELSE IF score >= 31 THEN "medium" ELSE "low",
       signals |-> [k \in 1..Len(rules) |-> rules[k].signal]]

computeTransactScore(p, recentNearbySales) ==
  LET rules == transactRules(p, recentNearbySales)
      raw == sumPoints(rules)
      score == IF raw > 100 THEN 100 ELSE raw
  IN  [score |-> score,
       level |-> IF score >= 61 THEN "high"
                 ELSE IF score >= 31 THEN "medium" ELSE "low",
       signals |-> [k \in 1..Len(rules) |-> rules[k].signal]]

----------------------------------------------------------------------------
(* properties: searchProperties                                            *)

MIN_MATCH_SCORE == 25

PAGE_SIZE == 25

transactToNumeric(level) ==
  CASE level = "high" -> 100
    [] level = "medium" -> 50
    [] level = "low" -> 20
    [] OTHER -> 0

\* 0.7 * matchScore + 0.3 * transactNumeric
weighted(r) ==
  RAdd(RMul(Rat(7, 10), r.matchScore),
       RMul(Rat(3, 10), RInt(transactToNumeric(r.transactScore))))

\* variant: the comparator looks at the match score only
compareResultsMatchOnly(a, b) == RSub(b.matchScore, a.matchScore)

\* the comparator (a, b) => weightedB - weightedA
compareResults(a, b) == RSub(weighted(b), weighted(a))

\* the array with the elements f[1], ..., f[n]
arrayOf(f, n) == SubSeq(f, 1, n)

\* variant: of two elements the comparator gives 0 for, the later comes first
sortedBeforeTiesReversed(list, k, j) ==
  \/ RLt(compareResults(list[k], list[j]), RInt(0))
  \/ compareResults(list[k], list[j]) = RInt(0) /\ k > j

\* Array.prototype.sort: element k comes before element j when the
\* comparator is negative on them, or zero with k first (the sort is stable)
sortedBefore(list, k, j) ==
  \/ RLt(compareResults(list[k], list[j]), RInt(0))
  \/ compareResults(list[k], list[j]) = RInt(0) /\ k < j

\* the index in the sorted array of every element of list
sortedIndex(list) ==
  arrayOf([j \in 1..Len(list) |->
             Cardinality({k \in 1..Len(list) : sortedBefore(list, k, j)}) + 1],
          Len(list))

\* the elements of list at the places index gives them
placeAt(list, index) ==
  arrayOf([r \in 1..Len(list) |->
             list[CHOOSE j \in 1..Len(list) : index[j] = r]],
          Len(list))

sortResults(list) == placeAt(list, sortedIndex(list))

\* variant: the filter looks at the weighted combination
filterResultsByWeighted(list) ==
  SelectSeq(list, LAMBDA r : RGe(weighted(r), RInt(MIN_MATCH_SCORE)))

\* Array.prototype.filter
filterResults(list) ==
  SelectSeq(list, LAMBDA r : RGe(r.matchScore, RInt(MIN_MATCH_SCORE)))

\* variant: a negative index counts as 0
sliceIndexClamped(len, k) == IF k < 0 THEN 0 ELSE (IF k > len THEN len ELSE k)

\* Array.prototype.slice(start, end), negative indices counting from the end
sliceIndex(len, k) == IF k < 0 THEN (IF len + k < 0 THEN 0 ELSE len + k)
                      ELSE (IF k > len THEN len ELSE k)

slice(list, start, end) ==
  SubSeq(list, sliceIndex(Len(list), start) + 1, sliceIndex(Len(list), end))

\* one SearchResult; an exception of computeMatchScore leaves the callback
resultOf(p, m, t) ==
  IF m = TypeError THEN TypeError
  ELSE [property |-> p, matchScore |-> m.score, transactScore |-> t.level,
        matchExplanation |-> m.explanation]

\* Array.prototype.map
scoreAll(properties, i) ==
  arrayOf([k \in 1..Len(properties) |->
             resultOf(properties[k], computeMatchScore(properties[k], i),
                      computeTransactScore(properties[k], FALSE))],
          Len(properties))

\* the result list after the filter and the sort
rankedResults(properties, i) == sortResults(filterResults(scoreAll(properties, i)))

\* the response for one page of the filtered and sorted list
pageOf(filtered, page, offset) ==
  [results |-> slice(filtered, offset, offset + PAGE_SIZE),
   total |-> Len(filtered),
   page |-> page,
   pageSize |-> PAGE_SIZE]

\* variant: the page number is taken as 0-based
searchPropertiesZeroBased(i, properties, page) ==
  pageOf(rankedResults(properties, i), page, page * PAGE_SIZE)

\* an exception in the callback of map leaves searchProperties
thrownIn(scored) == \E k \in 1..Len(scored) : scored[k] = TypeError

searchFrom(scored, page, offset) ==
  IF thrownIn(scored) THEN TypeError
  ELSE pageOf(sortResults(filterResults(scored)), page, offset)

searchProperties(i, properties, page) ==
  searchFrom(scoreAll(properties, i), page, (page - 1) * PAGE_SIZE)

\* searchProperties on a heap of arrays.  A heap is the sequence of the
\* arrays allocated so far, an array's reference is its index; array 1 is
\* the module's cachedSeedProperties.
CACHE == 1

\* variant: the method writes its result into the newest array
allocateInPlace(h, array) == [h EXCEPT ![Len(h)] = array]

\* filter, map and slice return a new array
allocate(h, array) == Append(h, array)

\* getProperties, seed path: getSeedProperties().filter(...); every modelled
\* property is of the market asked for
getPropertiesHeap(h) == allocate(h, h[CACHE])

\* properties.map(callback); the callback reads property and intent
mapHeap(h, i) == allocate(h, scoreAll(h[Len(h)], i))

\* scored.filter(...)
filterHeap(h) == allocate(h, filterResults(h[Len(h)]))

\* filtered.sort(...) sorts the array it is called on
sortHeap(h) == [h EXCEPT ![Len(h)] = sortResults(@)]

\* filtered.slice(offset, offset + PAGE_SIZE)
sliceHeap(h, offset) == allocate(h, slice(h[Len(h)], offset, offset + PAGE_SIZE))

\* the heap when searchProperties returns: cache, properties, scored,
\* filtered, results
searchPropertiesHeap(h, i, page) ==
  sliceHeap(sortHeap(filterHeap(mapHeap(getPropertiesHeap(h), i))),
            (page - 1) * PAGE_SIZE)

----------------------------------------------------------------------------
(* Inputs                                                                  *)

craftsman == <<"c","r","a","f","t","s","m","a","n">>
bungalow  == <<"b","u","n","g","a","l","o","w">>
victorian == <<"v","i","c","t","o","r","i","a","n">>
modernRaw == <<" ","M","o","d","e","r","n">>
pool      == <<"p","o","o","l">>
view      == <<"v","i","e","w">>
swimmingPool == <<"S","w","i","m","m","i","n","g"," "," ","p","o","o","l">>

Range(lo, hi) == [min |-> lo, max |-> hi]
Target(name, lat, radiusMiles) ==
  [name |-> name, lat |-> lat, lng |-> 0, radiusMiles |-> radiusMiles]

\* three ownership profiles, scoring low, medium and high
TransactProfiles ==
  << [absenteeOwner |-> FALSE, ownershipYears |-> NULL, equityEstimate |-> NULL,
      taxStatus |-> "current", yearBuilt |-> NULL, permitHistory |-> <<>>,
      listingStatus |-> "on_market"],
     [absenteeOwner |-> TRUE, ownershipYears |-> 20, equityEstimate |-> 40,
      taxStatus |-> "unknown", yearBuilt |-> 2010, permitHistory |-> <<[date |-> 2024]>>,
      listingStatus |-> "off_market"],
     [absenteeOwner |-> TRUE, ownershipYears |-> 20, equityEstimate |-> NULL,
      taxStatus |-> "delinquent", yearBuilt |-> 1986, permitHistory |-> <<>>,
      listingStatus |-> "recently_sold"] >>

\* positions in tenths of a mile; prices and budgets in one money unit;
\* sqft in one area unit (the scores depend on ratios only)
LatValues == <<0, 12, 250>>
\* <<listingPrice, estimatedValue>>
PriceValues == << <<NULL, NULL>>, <<NULL, 3>>, <<4, 3>>, <<7, 0>> >>
StyleValues == <<NULLSTR, bungalow, victorian>>
FeatureValues == << <<>>, <<swimmingPool, view>> >>
BedroomValues == <<3, 6>>
BathroomValues == <<2, 5>>
SqftValues == <<0, 3>>

\* the k-th modelled property: its attributes are the mixed-radix digits of k
PropertyAt(k) ==
  LET d1 == k \div Len(LatValues)
      d2 == d1 \div Len(PriceValues)
      d3 == d2 \div Len(StyleValues)
      d4 == d3 \div Len(FeatureValues)
      d5 == d4 \div Len(BedroomValues)
      d6 == d5 \div Len(BathroomValues)
      d7 == d6 \div Len(SqftValues)
      t == TransactProfiles[(d7 % Len(TransactProfiles)) + 1]
      price == PriceValues[(d1 % Len(PriceValues)) + 1]
  IN  [id |-> 0, lat |-> LatValues[(k % Len(LatValues)) + 1], lng |-> 0,
       listingPrice |-> price[1], estimatedValue |-> price[2],
       architecturalStyle |-> StyleValues[(d2 % Len(StyleValues)) + 1],
       features |-> FeatureValues[(d3 % Len(FeatureValues)) + 1],
       bedrooms |-> BedroomValues[(d4 % Len(BedroomValues)) + 1],
       bathrooms |-> BathroomValues[(d5 % Len(BathroomValues)) + 1],
       sqft |-> SqftValues[(d6 % Len(SqftValues)) + 1],
       absenteeOwner |-> t.absenteeOwner, ownershipYears |-> t.ownershipYears,
       equityEstimate |-> t.equityEstimate, taxStatus |-> t.taxStatus,
       yearBuilt |-> t.yearBuilt, permitHistory |-> t.permitHistory,
       listingStatus |-> t.listingStatus]

NumScoreProperties ==
  Len(LatValues) * Len(PriceValues) * Len(StyleValues) * Len(FeatureValues)
    * Len(BedroomValues) * Len(BathroomValues) * Len(SqftValues)

NumProperties == NumScoreProperties * Len(TransactProfiles)

LocationChoices == { <<>>, <<Target("A", 0, 1), Target("B", 30, 4)>> }
BudgetChoices == { Range(NULL, NULL), Range(NULL, 3), Range(5, 0) }
StyleChoices == { <<>>, <<modernRaw, bungalow>> }
FeatureChoices == { <<>>, <<pool, view>> }
BedChoices == { Range(NULL, NULL), Range(3, NULL) }
BathChoices == { Range(NULL, NULL), Range(2, NULL) }
SqftChoices == { Range(NULL, NULL), Range(2, 4), Range(5, 0) }

Intents ==
  [locations : LocationChoices, budget : BudgetChoices, styles : StyleChoices,
   features : FeatureChoices, beds : BedChoices, baths : BathChoices,
   sqft : SqftChoices]

\* the properties that differ in an attribute the match score reads
ScoreProperties == { PropertyAt(k) : k \in 0..(NumScoreProperties - 1) }

----------------------------------------------------------------------------
(* Specification of the match scorer: computeMatchScore called once on a   *)
(* drawn intent and property                                               *)

InitScore ==
  /\ intent \in Intents
  /\ property = <<>>
  /\ scoreWeights = <<>>
  /\ out = <<>>
  /\ collection = <<>>
  /\ fetched = <<>>
  /\ pc = "input"
  /\ nearbySales = FALSE
  /\ InitClient /\ InitServer

ComputeMatchScore(p) ==
  /\ pc = "input"
  /\ property' = p
  /\ scoreWeights' = getRedistributedWeights(intent)
  /\ out' = computeMatchScore(p, intent)
  /\ pc' = "done"
  /\ UNCHANGED <<client, server, nearbySales, intent, collection, fetched>>

NextScore == \E p \in ScoreProperties : ComputeMatchScore(p)

SpecScore == InitScore /\ [][NextScore]_vars

----------------------------------------------------------------------------
(* Specification of the ranking service: the pages 1, 2, ... of one search *)
(* are requested in turn                                                   *)

MaxCollection == 51
MaxPage == 4

\* n properties of the catalogue, from index a on in steps of b
Collection(n, a, b) ==
  [j \in 1..n |-> [PropertyAt((a + b * j) % NumProperties) EXCEPT !.id = j]]

\* <<a, b>>: every step changes the ownership profile and the position
CollectionStrides == {<<0, 577>>, <<3, 641>>}

CollectionSizes ==
  {0, 1, PAGE_SIZE, PAGE_SIZE + 1, 2 * PAGE_SIZE, MaxCollection}

SearchIntents ==
  {i \in Intents : /\ i.sqft = Range(NULL, NULL)
                   /\ i.beds = Range(NULL, NULL) /\ i.baths = Range(NULL, NULL)}

Init ==
  /\ intent \in SearchIntents
  /\ \E n \in CollectionSizes, ab \in CollectionStrides :
        collection = Collection(n, ab[1], ab[2])
  /\ fetched = <<>>
  /\ property = <<>>
  /\ scoreWeights = <<>>
  /\ out = <<>>
  /\ pc = "input"
  /\ nearbySales = FALSE
  /\ InitClient /\ InitServer

Search ==
  /\ Len(fetched) < MaxPage
  /\ fetched' = Append(fetched, searchProperties(intent, collection, Len(fetched) + 1))
  /\ UNCHANGED <<client, server, nearbySales, intent, property, scoreWeights, out,
                 collection, pc>>

Next == Search

Spec == Init /\ [][Next]_vars

----------------------------------------------------------------------------
(* Properties of the match scorer (SpecScore)                              *)

\* the factors (by index in FactorKeys) on which the intent states a preference:
\* a non-empty list or a range with a bound
SpecifiedAxes ==
  {k \in 1..6 :
     CASE k = 1 -> intent.locations # <<>>
       [] k = 2 -> intent.budget # Range(NULL, NULL)
       [] k = 3 -> intent.styles # <<>>
       [] k = 4 -> intent.features # <<>>
       [] k = 5 -> intent.beds # Range(NULL, NULL) \/ intent.baths # Range(NULL, NULL)
       [] k = 6 -> intent.sqft # Range(NULL, NULL)}

BaseWeight(k) == <<Rat(1, 4), Rat(1, 5), Rat(1, 5), Rat(3, 20), Rat(1, 10), Rat(1, 10)>>[k]

RECURSIVE SumOver(_, _)
SumOver(S, f) ==
  IF S = {} THEN RInt(0)
  ELSE LET k == CHOOSE x \in S : TRUE IN RAdd(f[k], SumOver(S \ {k}, f))

WeightOf(k) == scoreWeights[FactorKeys[k]]
FactorScore(k) == out.explanation.factors[k].score

C5_EmptyIntentScores50 ==
  (pc = "done" /\ SpecifiedAxes = {}) => out.score = RInt(50)

\* the empty intent scored on a property without price, style and sqft
C5_Witness ==
  /\ pc = "done"
  /\ SpecifiedAxes = {}
  /\ property.listingPrice = NULL /\ property.estimatedValue = NULL
  /\ property.architecturalStyle = NULLSTR
  /\ property.sqft = 0
  /\ out.score = RInt(50)

\* the attributes of a property, each with the preference that reads it
AttributeRead(a) ==
  CASE a = "lat" -> intent.locations # <<>>
    [] a = "price" -> intent.budget # Range(NULL, NULL)
    [] a = "architecturalStyle" -> intent.styles # <<>>
    [] a = "features" -> intent.features # <<>>
    [] a = "bedrooms" -> intent.beds # Range(NULL, NULL)
    [] a = "bathrooms" -> intent.baths # Range(NULL, NULL)
    [] a = "sqft" -> intent.sqft # Range(NULL, NULL)

ToSet(seq) == {seq[k] : k \in 1..Len(seq)}

\* the properties that differ from p in the one attribute a
VariantsOn(p, a) ==
  CASE a = "lat" -> {[p EXCEPT !.lat = v] : v \in ToSet(LatValues) \ {p.lat}}
    [] a = "price" ->
         {[p EXCEPT !.listingPrice = v[1], !.estimatedValue = v[2]] :
            v \in ToSet(PriceValues) \ {<<p.listingPrice, p.estimatedValue>>}}
    [] a = "architecturalStyle" ->
         {[p EXCEPT !.architecturalStyle = v] :
            v \in ToSet(StyleValues) \ {p.architecturalStyle}}
    [] a = "features" ->
         {[p EXCEPT !.features = v] : v \in ToSet(FeatureValues) \ {p.features}}
    [] a = "bedrooms" ->
         {[p EXCEPT !.bedrooms = v] : v \in ToSet(BedroomValues) \ {p.bedrooms}}
    [] a = "bathrooms" ->
         {[p EXCEPT !.bathrooms = v] : v \in ToSet(BathroomValues) \ {p.bathrooms}}
    [] a = "sqft" -> {[p EXCEPT !.sqft = v] : v \in ToSet(SqftValues) \ {p.sqft}}

Attributes ==
  {"lat", "price", "architecturalStyle", "features", "bedrooms", "bathrooms", "sqft"}

\* C6: with at least one axis specified, changing an attribute that only an
\* unspecified preference would read leaves the overall match score
\* unchanged (attribute by attribute, hence for any set of such attributes).
C6_UnspecifiedAxesDoNotInterfere ==
  (pc = "done" /\ SpecifiedAxes # {}) =>
    \A a \in Attributes :
       ~AttributeRead(a) =>
          \A q \in VariantsOn(property, a) :
             computeMatchScore(q, intent).score = out.score

\* a budget-only intent: style and position of the property are not read
C6_Witness ==
  /\ pc = "done"
  /\ SpecifiedAxes = {2}
  /\ out.score = RInt(100)
  /\ property.architecturalStyle = victorian
  /\ property.lat = 250

PriceKnown(p) == priceOf(p) # NULL /\ priceOf(p) # 0

InRange(x, range) ==
  /\ range.min # NULL => x >= range.min
  /\ range.max # NULL => x <= range.max

\* the property meets every criterion the intent states: it lies at a
\* target location, its price, bedrooms, bathrooms and sqft are inside the
\* ranges, its style is a desired style and it has every desired feature
FullySatisfies(p, i) ==
  /\ i.locations # <<>> =>
       \E k \in 1..Len(i.locations) :
          RLe(haversineDistance(p.lat, p.lng, i.locations[k].lat, i.locations[k].lng),
              Rat(1, 10))
  /\ i.budget # Range(NULL, NULL) => PriceKnown(p) /\ InRange(priceOf(p), i.budget)
  /\ i.styles # <<>> =>
       /\ p.architecturalStyle # NULLSTR
       /\ \E k \in 1..Len(i.styles) :
             normalizeStyle(i.styles[k]) = normalizeStyle(p.architecturalStyle)
  /\ \A k \in 1..Len(i.features) :
        \E j \in 1..Len(p.features) :
           stringIncludes(normalizeStyle(p.features[j]), normalizeStyle(i.features[k]))
  /\ InRange(p.bedrooms, i.beds)
  /\ InRange(p.bathrooms, i.baths)
  /\ i.sqft # Range(NULL, NULL) => p.sqft # 0 /\ InRange(p.sqft, i.sqft)

InScoreRange(x) == RGe(x, RInt(0)) /\ RLe(x, RInt(100))

C9_MatchedFlag ==
  pc = "done" =>
    \A k \in 1..6 :
       /\ out.explanation.factors[k].matched
            <=> (RGt(WeightOf(k), RInt(0)) /\ RGe(FactorScore(k), RInt(50)))
       /\ k \notin SpecifiedAxes => ~out.explanation.factors[k].matched

----------------------------------------------------------------------------
(* Properties of the ranking service (Spec)                                *)

\* the match scores of the first n properties of the collection
MatchScoresUpTo(n) ==
  arrayOf([k \in 1..n |-> computeMatchScore(collection[k], intent).score], n)

\* the collection's properties (by id) whose match score reaches the minimum
PassingIds ==
  LET scores == MatchScoresUpTo(Len(collection))
  IN  {k \in 1..Len(collection) : RGe(scores[k], RInt(25))}

RECURSIVE ConcatResults(_)
ConcatResults(k) ==
  IF k = 0 THEN <<>> ELSE ConcatResults(k - 1) \o fetched[k].results

\* the results of the pages fetched so far, in the order returned
AllResults == ConcatResults(Len(fetched))

\* C1: no returned result has a match score below 25; a property below 25
\* is excluded whatever its transact level, and total counts every property
\* whose match score is at least 25.
C1_MinimumMatchScore ==
  LET passing == PassingIds
  IN  \A pg \in 1..Len(fetched) :
         /\ \A j \in 1..Len(fetched[pg].results) :
               /\ RGe(fetched[pg].results[j].matchScore, RInt(25))
               /\ fetched[pg].results[j].property.id \in passing
         /\ fetched[pg].total = Cardinality(passing)

\* a property of transact level high scored below 25 and left out, beside
\* results that are returned
C1_Witness ==
  /\ Len(fetched) >= 1
  /\ fetched[1].total > 0
  /\ LET passing == PassingIds
     IN  \E k \in 1..Len(collection) :
            /\ k \notin passing
            /\ computeTransactScore(collection[k], FALSE).level = "high"

\* 0.7 x matchScore + 0.3 x transactNumeric of a result
CompositeKey(r) ==
  RAdd(RMul(Rat(7, 10), r.matchScore),
       RMul(Rat(3, 10),
            RInt(CASE r.transactScore = "high" -> 100
                   [] r.transactScore = "medium" -> 50
                   [] r.transactScore = "low" -> 20)))

\* C2: within every page and across the consecutive pages of a search, the
\* composite key is non-increasing along the returned sequence.
C2_CompositeKeyNonIncreasing ==
  LET all == AllResults
  IN  \A a \in 1..(Len(all) - 1) :
         RGe(CompositeKey(all[a]), CompositeKey(all[a + 1]))

\* two non-empty pages whose results carry at least three different keys
C2_Witness ==
  /\ Len(fetched) >= 2
  /\ fetched[2].results # <<>>
  /\ LET all == AllResults
     IN  Cardinality({CompositeKey(all[a]) : a \in 1..Len(all)}) >= 3

\* the composite keys of the first n properties of the collection
KeysUpTo(n) ==
  arrayOf([k \in 1..n |->
             CompositeKey(
               [matchScore |-> computeMatchScore(collection[k], intent).score,
                transactScore |-> computeTransactScore(collection[k], FALSE).level])],
          n)

Minimum(x, y) == IF x < y THEN x ELSE y
Maximum(x, y) == IF x < y THEN y ELSE x

\* C3: pages have 25 results; total is the number of filtered results, the
\* same on every page; result j of page pg has rank (pg-1)*25 + j among the
\* filtered results ordered by composite key; the pages up to
\* ceil(total/25) hold every filtered result exactly once and later pages
\* are empty.
C3_Pagination ==
  LET passing == PassingIds
      keys == KeysUpTo(Len(collection))
      total == Cardinality(passing)
      all == AllResults
      ids == [a \in 1..Len(all) |-> all[a].property.id]
  IN  /\ \A pg \in 1..Len(fetched) :
            /\ fetched[pg].total = total
            /\ fetched[pg].page = pg
            /\ fetched[pg].pageSize = 25
            /\ Len(fetched[pg].results) = Minimum(25, Maximum(0, total - (pg - 1) * 25))
            /\ \A j \in 1..Len(fetched[pg].results) :
                  LET r == fetched[pg].results[j]
                      rank == (pg - 1) * 25 + j
                      key == CompositeKey(r)
                  IN  /\ r.property.id \in passing
                      /\ r.property = collection[r.property.id]
                      /\ Cardinality({k \in passing : RGt(keys[k], key)}) < rank
                      /\ Cardinality({k \in passing : RGe(keys[k], key)}) >= rank
      /\ \A a, b \in 1..Len(ids) : a # b => ids[a] # ids[b]
      /\ Len(fetched) * 25 >= total => {ids[a] : a \in 1..Len(ids)} = passing

\* three non-empty pages, the third partial, and an empty fourth
C3_Witness ==
  /\ Len(fetched) = 4
  /\ fetched[1].total > 50
  /\ Len(fetched[2].results) = 25
  /\ Len(fetched[3].results) \in 1..24
  /\ fetched[4].results = <<>>
  /\ LET all == AllResults
     IN  Cardinality({CompositeKey(all[a]) : a \in 1..Len(all)}) >= 3

----------------------------------------------------------------------------
(* Specification of scoreLocation: one call on drawn targets and position  *)

MaxLocs == 2
MaxLat == 120

EmptyIntent ==
  [locations |-> <<>>, budget |-> Range(NULL, NULL), styles |-> <<>>,
   features |-> <<>>, beds |-> Range(NULL, NULL), baths |-> Range(NULL, NULL),
   sqft |-> Range(NULL, NULL)]

\* targets at miles 0, 2 and 6, of radius unset (0), 1 and 4 miles
LocationTargets ==
  {Target("T", lat, radius) : lat \in {0, 20, 60}, radius \in {0, 1, 4}}

LocationLists ==
  UNION {[1..n -> LocationTargets] : n \in 0..MaxLocs}

InitLocation ==
  /\ \E locs \in LocationLists : intent = [EmptyIntent EXCEPT !.locations = locs]
  /\ property = <<>>
  /\ scoreWeights = <<>>
  /\ out = <<>>
  /\ collection = <<>>
  /\ fetched = <<>>
  /\ pc = "input"
  /\ nearbySales = FALSE
  /\ InitClient /\ InitServer

ScoreLocation(lat) ==
  /\ pc = "input"
  /\ property' = [PropertyAt(0) EXCEPT !.lat = lat]
  /\ out' = scoreLocation(property', intent)
  /\ pc' = "done"
  /\ UNCHANGED <<client, server, nearbySales, intent, scoreWeights, collection, fetched>>

NextLocation == \E lat \in 0..MaxLat : ScoreLocation(lat)

SpecLocation == InitLocation /\ [][NextLocation]_vars

\* distance to, and score of, the k-th target of the intent
TargetDistance(k) ==
  haversineDistance(property.lat, property.lng,
                    intent.locations[k].lat, intent.locations[k].lng)
TargetScore(k) == locScore(TargetDistance(k), radiusOf(intent.locations[k]))

Nearest(k) ==
  \A j \in 1..Len(intent.locations) : RLe(TargetDistance(k), TargetDistance(j))

\* C10 as stated: with target locations, the result is the score of a
\* target at the smallest distance from the property.
C10_ScoreOfNearestTarget ==
  (pc = "done" /\ intent.locations # <<>>) =>
    \E k \in 1..Len(intent.locations) : Nearest(k) /\ out = TargetScore(k)

\* C10, amended: the result is the highest of the targets' scores, which
\* is the score of the target at the smallest distance whenever all the
\* targets have the same radius.
C10_BestTargetScore ==
  (pc = "done" /\ intent.locations # <<>>) =>
    /\ \E k \in 1..Len(intent.locations) : out = TargetScore(k)
    /\ \A k \in 1..Len(intent.locations) : RGe(out, TargetScore(k))
    /\ (\A j, k \in 1..Len(intent.locations) :
           radiusOf(intent.locations[j]) = radiusOf(intent.locations[k]))
         => \A k \in 1..Len(intent.locations) : Nearest(k) => out = TargetScore(k)

\* two targets of different radii: the nearer one scores lower than the
\* farther one, whose score is returned
C10_Witness ==
  /\ pc = "done"
  /\ Len(intent.locations) = 2
  /\ radiusOf(intent.locations[1]) # radiusOf(intent.locations[2])
  /\ RLt(TargetDistance(1), TargetDistance(2))
  /\ RLt(TargetScore(1), TargetScore(2))
  /\ out = TargetScore(2)

----------------------------------------------------------------------------
(* Specification of scoreBudget: one call on a drawn budget and price      *)

MaxBudget == 11
MaxPrice == 12

\* the listing price, with an estimated value beside it or not
BudgetProperties ==
  {[PropertyAt(0) EXCEPT !.listingPrice = lp, !.estimatedValue = ev] :
     lp \in {NULL} \cup 0..MaxPrice, ev \in {NULL, 3}}

InitBudget ==
  /\ \E min \in {NULL} \cup 0..MaxBudget, max \in {NULL} \cup 0..MaxBudget :
        intent = [EmptyIntent EXCEPT !.budget = Range(min, max)]
  /\ property = <<>>
  /\ scoreWeights = <<>>
  /\ out = <<>>
  /\ collection = <<>>
  /\ fetched = <<>>
  /\ pc = "input"
  /\ nearbySales = FALSE
  /\ InitClient /\ InitServer

ScoreBudget(p) ==
  /\ pc = "input"
  /\ property' = p
  /\ out' = scoreBudget(p, intent)
  /\ pc' = "done"
  /\ UNCHANGED <<client, server, nearbySales, intent, scoreWeights, collection, fetched>>

NextBudget == \E p \in BudgetProperties : ScoreBudget(p)

SpecBudget == InitBudget /\ [][NextBudget]_vars

----------------------------------------------------------------------------
(* Properties of scoreBudget (SpecBudget)                                  *)

\* the call had a price and a budget to compare
BudgetCompared ==
  /\ pc = "done"
  /\ priceOf(property) # NULL /\ priceOf(property) # 0
  /\ intent.budget.min # NULL \/ intent.budget.max # NULL

AboveMax(price) == intent.budget.max # NULL /\ price > intent.budget.max
BelowMin(price) == intent.budget.min # NULL /\ price < intent.budget.min

\* 100 x (1 - deviation / bound) clamped at 0; a bound of 0 gives 0
Decay(deviation, bound) ==
  IF bound = 0 THEN RInt(0)
  ELSE IF deviation >= bound THEN RInt(0)
  ELSE Rat(100 * (bound - deviation), bound)

\* 100 inside the bounds, the decay outside one, the minimum outside both
BudgetScoreAt(price) ==
  IF AboveMax(price) /\ BelowMin(price)
  THEN RMin(Decay(price - intent.budget.max, intent.budget.max),
            Decay(intent.budget.min - price, intent.budget.min))
  ELSE IF AboveMax(price) THEN Decay(price - intent.budget.max, intent.budget.max)
  ELSE IF BelowMin(price) THEN Decay(intent.budget.min - price, intent.budget.min)
  ELSE RInt(100)

\* the score the scorer gives the same property at another listing price
ScoreAtPrice(q) == scoreBudget([property EXCEPT !.listingPrice = q], intent)

\* q lies further outside a bound than price does
FurtherOutside(price, q) ==
  \/ AboveMax(price) /\ q > price
  \/ BelowMin(price) /\ q < price

\* C11 as stated: the score is 100 inside the bounds, the clamped decay
\* outside a bound, the minimum of the two checks, and it never rises as
\* the price moves further outside a bound.
C11_BudgetNonIncreasing ==
  BudgetCompared =>
    /\ out = BudgetScoreAt(priceOf(property))
    /\ property.listingPrice # NULL =>
         \A q \in 1..MaxPrice :
            FurtherOutside(property.listingPrice, q) => RLe(ScoreAtPrice(q), out)

\* C11: the score is 100 inside the bounds, the clamped decay outside a
\* bound and the minimum of the two checks; it never rises as the price
\* moves further outside a bound while the other bound is kept.
C11_BudgetScore ==
  BudgetCompared =>
    /\ out = BudgetScoreAt(priceOf(property))
    /\ property.listingPrice # NULL =>
         \A q \in 1..MaxPrice :
            (/\ FurtherOutside(property.listingPrice, q)
             /\ ~(AboveMax(property.listingPrice) /\ BelowMin(property.listingPrice))
             /\ ~(AboveMax(q) /\ BelowMin(q)))
              => RLe(ScoreAtPrice(q), out)

\* a price half as much again as the maximum scores 50
C11_Witness ==
  /\ BudgetCompared
  /\ intent.budget = Range(NULL, 2)
  /\ property.listingPrice = 3
  /\ out = RInt(50)

----------------------------------------------------------------------------
(* Specification of scoreBedsBaths: one call on drawn ranges and counts    *)

MaxBeds == 6

\* a bound of a range: none, or a count
BedBounds == {NULL} \cup 1..MaxBeds

BedsBathsProperties ==
  {[PropertyAt(0) EXCEPT !.bedrooms = beds, !.bathrooms = baths] :
     beds \in 0..(MaxBeds + 2), baths \in {1, 4}}

InitBedsBaths ==
  /\ \E min \in BedBounds, max \in BedBounds,
        baths \in {Range(NULL, NULL), Range(2, NULL), Range(1, 4)} :
        intent = [EmptyIntent EXCEPT !.beds = Range(min, max), !.baths = baths]
  /\ property = <<>>
  /\ scoreWeights = <<>>
  /\ out = <<>>
  /\ collection = <<>>
  /\ fetched = <<>>
  /\ pc = "input"
  /\ nearbySales = FALSE
  /\ InitClient /\ InitServer

ScoreBedsBaths(p) ==
  /\ pc = "input"
  /\ property' = p
  /\ out' = scoreBedsBaths(p, intent)
  /\ pc' = "done"
  /\ UNCHANGED <<client, server, nearbySales, intent, scoreWeights, collection, fetched>>

NextBedsBaths == \E p \in BedsBathsProperties : ScoreBedsBaths(p)

SpecBedsBaths == InitBedsBaths /\ [][NextBedsBaths]_vars

----------------------------------------------------------------------------
(* Properties of scoreBedsBaths (SpecBedsBaths)                            *)

RangeSpecified(range) == range.min # NULL \/ range.max # NULL

\* the bound of a specified range that lies nearer to the actual count
NearerBound(range, actual) ==
  IF range.min = NULL THEN range.max
  ELSE IF range.max = NULL THEN range.min
  ELSE IF Abs(actual - range.min) <= Abs(actual - range.max) THEN range.min
  ELSE range.max

\* difference 0 or 1 scores 100, 2 scores 50, more scores 0
Ladder(diff) == IF diff <= 1 THEN 100 ELSE IF diff = 2 THEN 50 ELSE 0

\* the score of one axis by the nearer bound, 50 for an unspecified axis
NearerBoundScore(range, actual) ==
  IF RangeSpecified(range)
  THEN Ladder(Abs(actual - NearerBound(range, actual))) ELSE 50

\* a range whose bounds, where both are given, are in order
Ordered(range) == (range.min # NULL /\ range.max # NULL) => range.min <= range.max

\* C12: each specified axis scores by the difference between the actual
\* count and the nearer of its min and max bounds (0 or 1: 100, 2: 50,
\* more: 0), and the factor is the mean of the two axes.
C12_NearerBound ==
  (/\ pc = "done"
   /\ RangeSpecified(intent.beds) \/ RangeSpecified(intent.baths)
   /\ Ordered(intent.beds) /\ Ordered(intent.baths))
    => out = Rat(NearerBoundScore(intent.beds, property.bedrooms)
                   + NearerBoundScore(intent.baths, property.bathrooms), 2)

----------------------------------------------------------------------------
(* Specification of scoreSqft: one call on a drawn range and sqft          *)

MaxSqftBound == 6
MaxSqft == 13

InitSqft ==
  /\ \E min \in {NULL} \cup 0..MaxSqftBound, max \in {NULL} \cup 0..MaxSqftBound :
        intent = [EmptyIntent EXCEPT !.sqft = Range(min, max)]
  /\ property = <<>>
  /\ scoreWeights = <<>>
  /\ out = <<>>
  /\ collection = <<>>
  /\ fetched = <<>>
  /\ pc = "input"
  /\ nearbySales = FALSE
  /\ InitClient /\ InitServer

ScoreSqft(sqft) ==
  /\ pc = "input"
  /\ property' = [PropertyAt(0) EXCEPT !.sqft = sqft]
  /\ out' = scoreSqft(property', intent)
  /\ pc' = "done"
  /\ UNCHANGED <<client, server, nearbySales, intent, scoreWeights, collection, fetched>>

NextSqft == \E sqft \in 0..MaxSqft : ScoreSqft(sqft)

SpecSqft == InitSqft /\ [][NextSqft]_vars

----------------------------------------------------------------------------
(* Properties of scoreSqft (SpecSqft)                                      *)

\* the call had a known sqft and a range to compare
SqftCompared ==
  /\ pc = "done"
  /\ property.sqft # 0
  /\ intent.sqft.min # NULL \/ intent.sqft.max # NULL

SqftBelowMin == intent.sqft.min # NULL /\ property.sqft < intent.sqft.min
SqftAboveMax == intent.sqft.max # NULL /\ property.sqft > intent.sqft.max

\* the linear decay by the deviation ratio relative to the violated bound
SqftDecays ==
  out = IF SqftBelowMin
        THEN Decay(intent.sqft.min - property.sqft, intent.sqft.min)
        ELSE IF SqftAboveMax
        THEN Decay(property.sqft - intent.sqft.max, intent.sqft.max)
        ELSE RInt(100)

DoubleTheMax == SqftAboveMax /\ ~SqftBelowMin /\ property.sqft = 2 * intent.sqft.max
HalfTheMin == SqftBelowMin /\ 2 * property.sqft = intent.sqft.min

\* C13 as stated: outside a bound the score decays linearly; sqft double
\* the max scores 0 and sqft half the min scores 0.
C13_HalfTheMinScoresZero ==
  SqftCompared =>
    /\ SqftDecays
    /\ DoubleTheMax => out = RInt(0)
    /\ HalfTheMin => out = RInt(0)

\* C13: outside a bound the score decays linearly with the deviation ratio
\* relative to the violated bound; sqft double the max scores 0 and sqft
\* half the min scores 50.
C13_SqftDecay ==
  SqftCompared =>
    /\ SqftDecays
    /\ DoubleTheMax => out = RInt(0)
    /\ HalfTheMin => out = RInt(50)

\* both cases: sqft 6 with max 3, and sqft 3 with min 6
C13_Witness ==
  /\ SqftCompared
  /\ \/ intent.sqft = Range(NULL, 3) /\ property.sqft = 6 /\ out = RInt(0)
     \/ intent.sqft = Range(6, NULL) /\ property.sqft = 3 /\ out = RInt(50)

----------------------------------------------------------------------------
(* Specification of scoreFeatures: one call on drawn desired features and  *)
(* property feature tags                                                   *)

MaxFeatures == 2

poolRaw == <<"P","o","o","l"," ">>
garage == <<"g","a","r","a","g","e">>

DesiredFeatures == {pool, poolRaw, swimmingPool, view, garage}
FeatureTags == {pool, swimmingPool, view, <<>>}

\* the arrays of up to n elements of S
RECURSIVE ArraysUpTo(_, _)
ArraysUpTo(S, n) ==
  IF n = 0 THEN {<<>>}
  ELSE ArraysUpTo(S, n - 1)
         \cup {Append(a, x) : a \in {b \in ArraysUpTo(S, n - 1) : Len(b) = n - 1}, x \in S}

InitFeatures ==
  /\ \E desired \in ArraysUpTo(DesiredFeatures, MaxFeatures) :
        intent = [EmptyIntent EXCEPT !.features = desired]
  /\ property = <<>>
  /\ scoreWeights = <<>>
  /\ out = <<>>
  /\ collection = <<>>
  /\ fetched = <<>>
  /\ pc = "input"
  /\ nearbySales = FALSE
  /\ InitClient /\ InitServer

ScoreFeatures(tags) ==
  /\ pc = "input"
  /\ property' = [PropertyAt(0) EXCEPT !.features = tags]
  /\ out' = scoreFeatures(property', intent)
  /\ pc' = "done"
  /\ UNCHANGED <<client, server, nearbySales, intent, scoreWeights, collection, fetched>>

NextFeatures == \E tags \in ArraysUpTo(FeatureTags, MaxFeatures) : ScoreFeatures(tags)

SpecFeatures == InitFeatures /\ [][NextFeatures]_vars

----------------------------------------------------------------------------
(* Properties of scoreFeatures (SpecFeatures)                              *)

\* sub occurs in s as a substring
OccursIn(sub, s) ==
  \E a \in 0..Len(s) : \E b \in a..Len(s) : SubSeq(s, a + 1, b) = sub

\* the desired features (by index) contained in some property tag
ContainedInATag ==
  {k \in 1..Len(intent.features) :
     \E t \in 1..Len(property.features) :
        OccursIn(normalizeStyle(intent.features[k]),
                 normalizeStyle(property.features[t]))}

\* the desired features (by index) that contain some property tag
ContainingATag ==
  {k \in 1..Len(intent.features) :
     \E t \in 1..Len(property.features) :
        OccursIn(normalizeStyle(property.features[t]),
                 normalizeStyle(intent.features[k]))}

FeaturesCompared == pc = "done" /\ Len(intent.features) > 0

\* C14 as stated: the score is 100 x k / n with k the number of desired
\* features whose normalized text occurs in some normalized property tag,
\* and no other desired feature counts.
C14_ContainedInATag ==
  FeaturesCompared =>
    out = Rat(100 * Cardinality(ContainedInATag), Len(intent.features))

\* C14: the score is 100 x k / n with k the number of desired features
\* whose normalized text occurs in, or contains, some normalized property
\* tag.
C14_SubstringEitherWay ==
  FeaturesCompared =>
    out = Rat(100 * Cardinality(ContainedInATag \cup ContainingATag),
              Len(intent.features))

\* "Swimming  pool" is counted for the tag "pool" and "garage" is not: 50
C14_Witness ==
  /\ FeaturesCompared
  /\ intent.features = <<swimmingPool, garage>>
  /\ property.features = <<pool, view>>
  /\ ContainedInATag = {}
  /\ out = RInt(50)

----------------------------------------------------------------------------
(* Specification of computeTransactScore: one call on a drawn property and *)
(* recentNearbySales flag                                                  *)

MaxOwnershipYears == 20

OwnershipValues == {NULL, 0, 10, 11, 15, 16, MaxOwnershipYears}
EquityValues == {NULL, 50, 51}
TaxValues == {"current", "delinquent", "unknown"}
YearBuiltValues == {NULL, CURRENT_YEAR - 30, CURRENT_YEAR - 31, CURRENT_YEAR - 40}
\* no permit, one of 5 years ago, one of 6 years ago, one with an unparsable date
PermitValues ==
  {<<>>, <<[date |-> CURRENT_YEAR - 5]>>, <<[date |-> CURRENT_YEAR - 6]>>,
   <<[date |-> NULL]>>}
ListingValues == {"on_market", "off_market"}

TransactProperties ==
  {[PropertyAt(0) EXCEPT !.ownershipYears = own, !.absenteeOwner = abs,
                         !.equityEstimate = eq, !.taxStatus = tax,
                         !.yearBuilt = yb, !.permitHistory = ph,
                         !.listingStatus = ls] :
     own \in OwnershipValues, abs \in BOOLEAN, eq \in EquityValues,
     tax \in TaxValues, yb \in YearBuiltValues, ph \in PermitValues,
     ls \in ListingValues}

InitTransact ==
  /\ intent = EmptyIntent
  /\ property = <<>>
  /\ scoreWeights = <<>>
  /\ out = <<>>
  /\ collection = <<>>
  /\ fetched = <<>>
  /\ pc = "input"
  /\ nearbySales \in BOOLEAN
  /\ InitClient /\ InitServer

ComputeTransactScore(p) ==
  /\ pc = "input"
  /\ property' = p
  /\ out' = computeTransactScore(p, nearbySales)
  /\ pc' = "done"
  /\ UNCHANGED <<client, server, nearbySales, intent, scoreWeights, collection, fetched>>

NextTransact == \E p \in TransactProperties : ComputeTransactScore(p)

SpecTransact == InitTransact /\ [][NextTransact]_vars

----------------------------------------------------------------------------
(* Properties of computeTransactScore (SpecTransact)                       *)

\* the conditions of the eight rules
OwnedOver10(p) == p.ownershipYears # NULL /\ p.ownershipYears > 10
OwnedOver15(p) == p.ownershipYears # NULL /\ p.ownershipYears > 15
Absentee(p) == p.absenteeOwner
HighEquity(p) == p.equityEstimate # NULL /\ p.equityEstimate > 50
Delinquent(p) == p.taxStatus = "delinquent"
PermitInLast5Years(p) ==
  \E k \in 1..Len(p.permitHistory) :
     p.permitHistory[k].date # NULL /\ p.permitHistory[k].date >= CURRENT_YEAR - 5
DeferredMaintenance(p) ==
  ~PermitInLast5Years(p) /\ p.yearBuilt # NULL /\ CURRENT_YEAR - p.yearBuilt > 30
OffMarket(p) == p.listingStatus = "off_market"

\* the rules that trigger, by the number of their line in the point table
Triggered(p, nearby) ==
  {r \in 1..8 : CASE r = 1 -> OwnedOver10(p)
                  [] r = 2 -> OwnedOver15(p)
                  [] r = 3 -> Absentee(p)
                  [] r = 4 -> HighEquity(p)
                  [] r = 5 -> Delinquent(p)
                  [] r = 6 -> nearby
                  [] r = 7 -> DeferredMaintenance(p)
                  [] r = 8 -> OffMarket(p)}

\* the point table
PointsOf == <<20, 10, 15, 10, 15, 5, 10, 5>>

RECURSIVE TotalPoints(_)
TotalPoints(rules) ==
  IF rules = {} THEN 0
  ELSE LET r == CHOOSE x \in rules : TRUE
       IN  PointsOf[r] + TotalPoints(rules \ {r})

\* C15: the score is exactly the sum of the points of the rules that
\* trigger; the property owned 20 years by an absentee, tax delinquent,
\* built 40 years ago and without permits scores 70, level high.
C15_SumOfPoints ==
  pc = "done" =>
    /\ out.score = TotalPoints(Triggered(property, nearbySales))
    /\ (/\ property.ownershipYears = 20 /\ property.absenteeOwner
        /\ property.taxStatus = "delinquent"
        /\ property.yearBuilt = CURRENT_YEAR - 40 /\ property.permitHistory = <<>>
        /\ ~HighEquity(property) /\ ~OffMarket(property) /\ ~nearbySales)
         => (out.score = 70 /\ out.level = "high")

\* the property of the example, scored
C15_Witness ==
  /\ pc = "done"
  /\ property.ownershipYears = 20 /\ property.absenteeOwner
  /\ property.taxStatus = "delinquent"
  /\ property.yearBuilt = CURRENT_YEAR - 40 /\ property.permitHistory = <<>>
  /\ property.equityEstimate = NULL /\ property.listingStatus = "on_market"
  /\ ~nearbySales
  /\ Triggered(property, nearbySales) = {1, 2, 3, 5, 7}
  /\ out.score = 70

\* the properties that differ from p in one attribute at most
OneAttributeChanged(p) ==
  {[p EXCEPT !.ownershipYears = v] : v \in OwnershipValues}
    \cup {[p EXCEPT !.absenteeOwner = v] : v \in BOOLEAN}
    \cup {[p EXCEPT !.equityEstimate = v] : v \in EquityValues}
    \cup {[p EXCEPT !.taxStatus = v] : v \in TaxValues}
    \cup {[p EXCEPT !.yearBuilt = v] : v \in YearBuiltValues}
    \cup {[p EXCEPT !.permitHistory = v] : v \in PermitValues}
    \cup {[p EXCEPT !.listingStatus = v] : v \in ListingValues}

\* C16: a change of one attribute of the property, or of the flag, after
\* which every rule that triggered still triggers never lowers the score,
\* and the score never exceeds 100.
C16_Monotone ==
  pc = "done" =>
    /\ out.score <= 100
    /\ \A p2 \in OneAttributeChanged(property) :
          Triggered(property, nearbySales) \subseteq Triggered(p2, nearbySales)
            => computeTransactScore(p2, nearbySales).score >= out.score
    /\ Triggered(property, nearbySales) \subseteq Triggered(property, TRUE)
    /\ computeTransactScore(property, TRUE).score >= out.score

\* owned 11 years, where owning 16 years makes one more rule trigger, and
\* scored without the flag, which can be added
C16_Witness ==
  /\ pc = "done"
  /\ property.ownershipYears = 11
  /\ ~nearbySales
  /\ out.score > 0
  /\ \E p2 \in OneAttributeChanged(property) :
        /\ Triggered(p2, nearbySales) = Triggered(property, nearbySales) \cup {2}
        /\ computeTransactScore(p2, nearbySales).score = out.score + 10

\* C17: the level is low for the scores 0..30, medium for 31..60 and high
\* for 61..100; there is one signal per triggered rule, and none exactly
\* when the score is 0.
C17_LevelsAndSignals ==
  pc = "done" =>
    /\ out.score \in 0..100
    /\ out.level = (IF out.score <= 30 THEN "low"
                    ELSE IF out.score <= 60 THEN "medium" ELSE "high")
    /\ Len(out.signals) = Cardinality(Triggered(property, nearbySales))
    /\ out.signals = <<>> <=> out.score = 0

\* a score of 60, the highest of level medium, with its five signals
C17_Witness ==
  /\ pc = "done"
  /\ out.score = 60
  /\ out.level = "medium"
  /\ Len(out.signals) = 5

----------------------------------------------------------------------------
(* Specification of the style functions: styleSimilarity and               *)
(* bestStyleMatch on drawn desired styles and property style               *)

MaxStyles == 2

craftsmanRaw == <<"C","R","A","F","T","S","M","A","N"," ">>
ornate == <<"o","r","n","a","t","e">>
loft == <<"l","o","f","t">>
modern == <<"m","o","d","e","r","n">>
castle == <<"c","a","s","t","l","e">>
constructorRaw == <<"C","o","n","s","t","r","u","c","t","o","r">>

\* keys of the table related both ways (craftsman, bungalow) and one way
\* (loft lists modern), a key with a style that is no key (victorian,
\* ornate), raw spellings, an unknown style, the empty string and a name
\* that objects inherit
StyleStrings ==
  {craftsman, craftsmanRaw, bungalow, victorian, ornate, loft, modern, modernRaw,
   castle, <<>>, constructorRaw}

InitStyle ==
  /\ \E desired \in ArraysUpTo(StyleStrings, MaxStyles) :
        intent = [EmptyIntent EXCEPT !.styles = desired]
  /\ property = <<>>
  /\ scoreWeights = <<>>
  /\ out = <<>>
  /\ collection = <<>>
  /\ fetched = <<>>
  /\ pc = "input"
  /\ nearbySales = FALSE
  /\ InitClient /\ InitServer

\* styleSimilarity(styleA, styleB) on the first desired style and the
\* property's style
StyleSimilarity(style) ==
  /\ pc = "input"
  /\ Len(intent.styles) = 1
  /\ property' = [PropertyAt(0) EXCEPT !.architecturalStyle = style]
  /\ out' = styleSimilarity(intent.styles[1], style)
  /\ pc' = "similarity"
  /\ UNCHANGED <<client, server, nearbySales, intent, scoreWeights, collection, fetched>>

BestStyleMatch(style) ==
  /\ pc = "input"
  /\ property' = [PropertyAt(0) EXCEPT !.architecturalStyle = style]
  /\ out' = bestStyleMatch(intent.styles, style)
  /\ pc' = "best"
  /\ UNCHANGED <<client, server, nearbySales, intent, scoreWeights, collection, fetched>>

NextStyle ==
  \/ \E style \in StyleStrings : StyleSimilarity(style)
  \/ \E style \in StyleStrings \cup {NULLSTR} : BestStyleMatch(style)

SpecStyle == InitStyle /\ [][NextStyle]_vars

----------------------------------------------------------------------------
(* Properties of the style functions (SpecStyle)                           *)

\* C18: styleSimilarity gives the same value with its arguments exchanged,
\* and its value is one of 1.0, 0.5 and 0.
C18_SymmetricSimilarity ==
  pc = "similarity" =>
    /\ out = styleSimilarity(property.architecturalStyle, intent.styles[1])
    /\ out \in {RInt(1), Rat(1, 2), RInt(0)}

\* the similarities of the desired styles to the property's style
Similarities ==
  {styleSimilarity(intent.styles[k], property.architecturalStyle) :
     k \in 1..Len(intent.styles)}

\* the greatest of a set of similarities; no value if one of them is none
Greatest(values) ==
  IF TypeError \in values THEN TypeError
  ELSE IF RInt(1) \in values THEN RInt(1)
  ELSE IF Rat(1, 2) \in values THEN Rat(1, 2)
  ELSE RInt(0)

Reversed(list) == [k \in 1..Len(list) |-> list[Len(list) + 1 - k]]

\* C19: bestStyleMatch returns 0 for an empty desired list or a null
\* property style, and otherwise the maximum of styleSimilarity over the
\* desired styles, whatever the order of the desired list.
C19_BestIsMaximum ==
  pc = "best" =>
    IF Len(intent.styles) = 0 \/ property.architecturalStyle = NULLSTR
    THEN out = RInt(0)
    ELSE /\ out = Greatest(Similarities)
         /\ out = bestStyleMatch(Reversed(intent.styles), property.architecturalStyle)

----------------------------------------------------------------------------
(* Specification of normalizeStyle: one call on a drawn string             *)

MaxLen == 4

\* an upper-case and a lower-case letter, a space and a tab
Alphabet == {"A", "b", " ", "\t"}

InitNormalize ==
  /\ \E s \in ArraysUpTo(Alphabet, MaxLen) :
        property = [PropertyAt(0) EXCEPT !.architecturalStyle = s]
  /\ intent = EmptyIntent
  /\ scoreWeights = <<>>
  /\ out = <<>>
  /\ collection = <<>>
  /\ fetched = <<>>
  /\ pc = "input"
  /\ nearbySales = FALSE
  /\ InitClient /\ InitServer

NormalizeStyle ==
  /\ pc = "input"
  /\ out' = normalizeStyle(property.architecturalStyle)
  /\ pc' = "normalized"
  /\ UNCHANGED <<client, server, nearbySales, intent, property, scoreWeights, collection, fetched>>

NextNormalize == NormalizeStyle

SpecNormalize == InitNormalize /\ [][NextNormalize]_vars

----------------------------------------------------------------------------
(* Properties of normalizeStyle (SpecNormalize)                            *)

\* C20: normalizing a normalized string changes nothing.
C20_NormalizeIdempotent ==
  pc = "normalized" => normalizeStyle(out) = out

\* a string with an upper-case letter and a run of different whitespace
\* inside, and one with whitespace at both ends
C20_Witness ==
  /\ pc = "normalized"
  /\ \/ property.architecturalStyle = <<"A", " ", "\t", "b">> /\ out = <<"a", " ", "b">>
     \/ property.architecturalStyle = <<" ", "\t", "A", " ">> /\ out = <<"a">>

----------------------------------------------------------------------------
(* Specification of the scoring core on partially populated intents: the   *)
(* intents the search route lets through, scored against properties of a   *)
(* small collection and searched page by page                              *)

MaxPartialCollection == 3

\* the intent without the fields in omitted
without(i, omitted) == [field \in (DOMAIN i) \ omitted |-> i[field]]

\* POST /api/search: Array.isArray(intent.styles), Array.isArray(intent.features),
\* intent.budget and Array.isArray(intent.locations)
hasMinimumStructure(i) ==
  {"styles", "features", "budget", "locations"} \subseteq DOMAIN i

PartialBases ==
  {i \in Intents : i.budget = Range(NULL, 3) /\ i.sqft # Range(5, 0)}

PartialIntents ==
  {i \in {without(base, omitted) :
            base \in PartialBases,
            omitted \in SUBSET {"locations", "budget", "styles", "features",
                                "beds", "baths", "sqft"}} :
     hasMinimumStructure(i)}

InitPartial ==
  /\ intent \in PartialIntents
  /\ \E n \in {0, MaxPartialCollection} : collection = Collection(n, 0, 577)
  /\ fetched = <<>>
  /\ property = <<>>
  /\ scoreWeights = <<>>
  /\ out = <<>>
  /\ pc = "input"
  /\ nearbySales = FALSE
  /\ InitClient /\ InitServer

NextPartial ==
  \/ \E k \in 1..Len(collection) : ComputeMatchScore(collection[k])
  \/ Search

SpecPartial == InitPartial /\ [][NextPartial]_vars

----------------------------------------------------------------------------
(* Properties of the scoring core on partial intents (SpecPartial)         *)

\* C21: on an intent that lacks some preference fields, computeMatchScore
\* and searchProperties return scores and raise no error.
C21_PartialIntentScores ==
  /\ pc = "done" => out # TypeError
  /\ \A k \in 1..Len(fetched) : fetched[k] # TypeError

----------------------------------------------------------------------------
(* Specification of the ranking service on collections with incomplete     *)
(* property data                                                           *)

MaxIncomplete == 3

\* catalogue indices of: a property without price, style, sqft and year
\* built; one without style only; one without price only; a complete one
IncompleteCatalogue == {0, 870, 1464, 1494}

IncompleteCollections ==
  UNION {[1..n -> IncompleteCatalogue] : n \in 1..MaxIncomplete}

IncompleteIntents ==
  {i \in Intents : i.beds = Range(NULL, NULL) /\ i.baths = Range(NULL, NULL)}

InitIncomplete ==
  /\ intent \in IncompleteIntents
  /\ \E index \in IncompleteCollections :
        collection = [j \in 1..Len(index) |->
                        [PropertyAt(index[j]) EXCEPT !.id = j]]
  /\ fetched = <<>>
  /\ property = <<>>
  /\ scoreWeights = <<>>
  /\ out = <<>>
  /\ pc = "input"
  /\ nearbySales = FALSE
  /\ InitClient /\ InitServer

NextIncomplete == Search

SpecIncomplete == InitIncomplete /\ [][NextIncomplete]_vars

----------------------------------------------------------------------------
(* Properties of the ranking service on incomplete data (SpecIncomplete)   *)

NoPrice(p) == p.listingPrice = NULL /\ p.estimatedValue = NULL
NoStyle(p) == p.architecturalStyle = NULLSTR
NoSqft(p) == p.sqft = 0
NoYearBuilt(p) == p.yearBuilt = NULL

LevelOf(points) ==
  IF points <= 30 THEN "low" ELSE IF points <= 60 THEN "medium" ELSE "high"

\* the score of factor k in a search result
ResultFactor(r, k) == r.matchExplanation.factors[k].score

\* C22: no search raises an error; a returned property without a price has
\* the Budget score 50, without sqft the Sqft score 50, without a style the
\* Style score 25 when styles are specified, and without a year built a
\* transact level that counts no permit/age points; total counts, and the
\* pages hold, every property of the collection whose own match score
\* reaches the minimum, incomplete or not.
C22_IncompleteDataRanked ==
  LET passing == PassingIds
      all == AllResults
  IN  /\ \A pg \in 1..Len(fetched) :
            /\ fetched[pg] # TypeError
            /\ fetched[pg].total = Cardinality(passing)
      /\ \A a \in 1..Len(all) :
            LET r == all[a]
                p == r.property
            IN  /\ p = collection[p.id]
                /\ NoPrice(p) => ResultFactor(r, 2) = RInt(50)
                /\ NoSqft(p) => ResultFactor(r, 6) = RInt(50)
                /\ (NoStyle(p) /\ intent.styles # <<>>) => ResultFactor(r, 3) = RInt(25)
                /\ NoYearBuilt(p) =>
                     r.transactScore = LevelOf(TotalPoints(Triggered(p, FALSE) \ {7}))
      /\ Len(fetched) >= 1 =>
            {all[a].property.id : a \in 1..Len(all)} = passing

\* budget, styles and sqft are specified; a property without price, style,
\* sqft and year built stands first in the collection, is returned with
\* its fallback scores, and the complete properties after it are returned
\* as well, one of them ranked above it
C22_Witness ==
  /\ Len(fetched) = 1
  /\ intent.budget # Range(NULL, NULL)
  /\ intent.styles # <<>>
  /\ intent.sqft # Range(NULL, NULL)
  /\ Len(collection) = 3
  /\ NoPrice(collection[1]) /\ NoStyle(collection[1])
  /\ NoSqft(collection[1]) /\ NoYearBuilt(collection[1])
  /\ \A j \in 2..3 : ~NoPrice(collection[j]) /\ ~NoStyle(collection[j])
                     /\ ~NoSqft(collection[j]) /\ ~NoYearBuilt(collection[j])
  /\ Len(fetched[1].results) = 3
  /\ fetched[1].results[3].property.id = 1
  /\ ResultFactor(fetched[1].results[3], 2) = RInt(50)
  /\ ResultFactor(fetched[1].results[3], 3) = RInt(25)
  /\ ResultFactor(fetched[1].results[3], 6) = RInt(50)

----------------------------------------------------------------------------
(* Specification of the match scorer on arguments that break its contract: *)
(* a null intent, a null property, a property without coordinates          *)

MaxContract == 5

\* null, and the first catalogue properties with and without lat and lng
ContractProperties ==
  {NullReference}
    \cup {without(PropertyAt(k), omitted) :
            k \in 0..MaxContract, omitted \in SUBSET {"lat", "lng"}}

InitContract ==
  /\ intent \in Intents \cup {NullReference}
  /\ property = <<>>
  /\ scoreWeights = <<>>
  /\ out = <<>>
  /\ collection = <<>>
  /\ fetched = <<>>
  /\ pc = "input"
  /\ nearbySales = FALSE
  /\ InitClient /\ InitServer

NextContract == \E p \in ContractProperties : ComputeMatchScore(p)

SpecContract == InitContract /\ [][NextContract]_vars

----------------------------------------------------------------------------
(* Properties of the match scorer on contract violations (SpecContract)    *)

MissingCoordinates(p) == p # NullReference /\ ~({"lat", "lng"} \subseteq DOMAIN p)

ContractViolated ==
  intent = NullReference \/ property = NullReference \/ MissingCoordinates(property)

\* C23: the call on a null intent, a null property or a property without
\* its coordinates ends in an error; a property without lat/lng scored
\* against target locations gets no Location score.
C23_FailFast ==
  (pc = "done" /\ ContractViolated) => out = TypeError

----------------------------------------------------------------------------
(* The unknown location (SpecLocation).  The modelled meridian is lng = 0  *)
(* with positions counted from the equator, so the property at position 0  *)
(* has the coordinates (0, 0).                                             *)

AtOrigin(p) == p.lat = 0 /\ p.lng = 0

\* C24: the Location score of a property at (0, 0) does not come from its
\* distances to the targets: it is the same for every list of targets.
C24_OriginExcluded ==
  (pc = "done" /\ AtOrigin(property) /\ intent.locations # <<>>) =>
    \A locations \in LocationLists \ {<<>>} :
       scoreLocation(property, [intent EXCEPT !.locations = locations]) = out

----------------------------------------------------------------------------
(* Specification of the scorers' effect on their inputs: any sequence of   *)
(* computeMatchScore, computeTransactScore and searchProperties calls on   *)
(* the cached collection.  collection is the data as loaded, out the heap  *)
(* after the last search, scoreWeights the last scorer result.             *)

MaxFrame == 3
MaxFramePage == 2

FrameCollections ==
  UNION {[1..n -> IncompleteCatalogue] : n \in 1..MaxFrame}

FrameIntents ==
  {i \in IncompleteIntents :
     /\ i.locations # <<>> /\ i.budget = Range(NULL, 3)
     /\ i.features = <<>> /\ i.sqft = Range(2, 4)}

InitFrame ==
  /\ intent \in FrameIntents
  /\ \E index \in FrameCollections :
        collection = [j \in 1..Len(index) |->
                        [PropertyAt(index[j]) EXCEPT !.id = j]]
  /\ out = <<collection>>
  /\ fetched = <<>>
  /\ property = <<>>
  /\ scoreWeights = <<>>
  /\ pc = "input"
  /\ nearbySales \in BOOLEAN
  /\ InitClient /\ InitServer

FrameMatchScore(k) ==
  /\ scoreWeights' = computeMatchScore(out[CACHE][k], intent)
  /\ UNCHANGED <<client, server, nearbySales, intent, property, out, collection, fetched, pc>>

FrameTransactScore(k) ==
  /\ scoreWeights' = computeTransactScore(out[CACHE][k], nearbySales)
  /\ UNCHANGED <<client, server, nearbySales, intent, property, out, collection, fetched, pc>>

\* the arrays of an earlier call are garbage when the next call starts
FrameSearch(page) ==
  /\ out' = searchPropertiesHeap(<<out[CACHE]>>, intent, page)
  /\ UNCHANGED <<client, server, nearbySales, intent, property, scoreWeights, collection,
                 fetched, pc>>

NextFrame ==
  \/ \E k \in 1..Len(out[CACHE]) : FrameMatchScore(k)
  \/ \E k \in 1..Len(out[CACHE]) : FrameTransactScore(k)
  \/ \E page \in 1..MaxFramePage : FrameSearch(page)

SpecFrame == InitFrame /\ [][NextFrame]_vars

----------------------------------------------------------------------------
(* Properties of the scorers' effect on their inputs (SpecFrame)           *)

\* C25: the cached collection keeps its contents and its order, and so
\* does the array getProperties returned; the results are those of
\* searchProperties; the intent never changes.
C25_InputsUnchanged ==
  /\ [](/\ out[CACHE] = collection
        /\ Len(out) > 1 =>
             /\ out[2] = collection
             /\ \E page \in 1..MaxFramePage :
                   out[5] = searchProperties(intent, collection, page).results)
  /\ [][intent' = intent /\ collection' = collection]_vars

\* after a search whose sort changed the order of the filtered list, and a
\* call of a scorer
C25_Witness ==
  /\ Len(out) = 5
  /\ Len(out[3]) = 3
  /\ out[4] # filterResults(out[3])
  /\ Len(out[4]) = 3
  /\ scoreWeights # <<>>

----------------------------------------------------------------------------
(* Ties of the ranking (Spec).  The id of a property of the collection is  *)
(* its index in the collection.                                            *)

\* C26: of two returned results with equal composite keys, the one whose
\* property comes first in the collection comes first in the pages.
C26_TiesKeepInputOrder ==
  LET all == AllResults
  IN  \A a, b \in 1..Len(all) :
         (a < b /\ CompositeKey(all[a]) = CompositeKey(all[b]))
           => all[a].property.id < all[b].property.id

\* a tie within page 1, a tie across the boundary of pages 1 and 2, and a
\* result placed before a result of a property that precedes its own
C26_Witness ==
  /\ Len(fetched) >= 2
  /\ LET first == fetched[1].results
         second == fetched[2].results
     IN  /\ Len(first) = PAGE_SIZE /\ second # <<>>
         /\ \E a, b \in 1..Len(first) :
               /\ a < b
               /\ CompositeKey(first[a]) = CompositeKey(first[b])
               /\ first[a].property.id + 1 < first[b].property.id
         /\ CompositeKey(first[PAGE_SIZE]) = CompositeKey(second[1])
         /\ \E a, b \in 1..Len(first) :
               a < b /\ first[a].property.id > first[b].property.id

----------------------------------------------------------------------------
(* Specification of the ranking service on any page number: one search     *)
(* per step, out the page asked for, fetched the one response              *)

MaxNegativePage == 2

PageIntents == {i \in SearchIntents : i.styles = <<>> /\ i.features = <<>>}

InitPages ==
  /\ intent \in PageIntents
  /\ \E n \in CollectionSizes, ab \in CollectionStrides :
        collection = Collection(n, ab[1], ab[2])
  /\ fetched = <<>>
  /\ property = <<>>
  /\ scoreWeights = <<>>
  /\ out = <<>>
  /\ pc = "input"
  /\ nearbySales = FALSE
  /\ InitClient /\ InitServer

SearchPage(page) ==
  /\ pc = "input"
  /\ out' = page
  /\ fetched' = <<searchProperties(intent, collection, page)>>
  /\ pc' = "done"
  /\ UNCHANGED <<client, server, nearbySales, intent, property, scoreWeights, collection>>

NextPages == \E page \in (0 - MaxNegativePage)..MaxPage : SearchPage(page)

SpecPages == InitPages /\ [][NextPages]_vars

----------------------------------------------------------------------------
(* Properties of the ranking service on any page number (SpecPages)        *)

\* C27: no page number makes the search fail; total and pageSize are those
\* of page 1 and page is the number asked for; page 0 and the pages after
\* the last are empty; a negative page holds at most 25 results, those at
\* the offsets (page - 1) * 25 .. page * 25 counted back from the end of
\* the ranked list.
C27_OutOfRangePages ==
  pc = "done" =>
    LET r == fetched[1]
        ranked == searchProperties(intent, collection, 1)
        n == ranked.total
        first == Maximum(n + (out - 1) * 25, 0)
        last == Maximum(n + out * 25, 0)
    IN  /\ r # TypeError
        /\ r.total = n /\ r.pageSize = ranked.pageSize /\ r.page = out
        /\ out = 0 => r.results = <<>>
        /\ (out - 1) * 25 >= n => r.results = <<>>
        /\ out < 0 =>
             /\ Len(r.results) <= 25
             /\ r.results = SubSeq(rankedResults(collection, intent), first + 1, last)

\* page -1 of more than 25 ranked results: the results that end 25 places
\* before the end of the list
C27_Witness ==
  /\ pc = "done"
  /\ out = 0 - 1
  /\ fetched[1].total > 2 * PAGE_SIZE
  /\ Len(fetched[1].results) = PAGE_SIZE
  /\ fetched[1].results[PAGE_SIZE] =
       rankedResults(collection, intent)[fetched[1].total - PAGE_SIZE]

----------------------------------------------------------------------------
(* The two sub-scores of scoreBedsBaths (SpecBedsBaths)                    *)

\* the call with the bounds and the count of the beds given as those of
\* the baths, and no bounds on the beds
AsBaths(p, i) ==
  scoreBedsBaths([p EXCEPT !.bathrooms = p.bedrooms],
                 [i EXCEPT !.beds = Range(NULL, NULL), !.baths = i.beds])

\* C28: bounds on the beds alone score as the same bounds on the baths
\* alone with the same count: the beds and the baths sub-scores are the
\* same function of (min, max, actual).
C28_BedsAsBaths ==
  (pc = "done" /\ RangeSpecified(intent.beds) /\ ~RangeSpecified(intent.baths))
    => out = AsBaths(property, intent)

\* a count 2 below the minimum, where the below-minimum penalty limits the
\* beds sub-score to 50
C28_Witness ==
  /\ pc = "done"
  /\ ~RangeSpecified(intent.baths)
  /\ intent.beds.min # NULL
  /\ intent.beds.min - property.bedrooms = 2
  /\ out = RInt(50)

----------------------------------------------------------------------------
(* The results page: the store's search actions and the async handlers     *)
(* runSearch, loadMore and handleRefine of ResultsContent.  An intent is   *)
(* known by a number: 1 is the intent parsed from the query, a + 1 the     *)
(* intent refined from a.  A search result is known by its intent and its  *)
(* rank.  A handler suspended at an await is a record of component.calls.  *)

MaxIntents == 3
MaxResultsPage == 4

\* the number of matches of an intent
TotalOf(a) == IF a = 1 THEN 60 ELSE 30

\* what POST /api/search answers for an intent and a page
searchResponse(a, page) ==
  pageOf(arrayOf([k \in 1..TotalOf(a) |-> [intent |-> a, rank |-> k]], TotalOf(a)),
         page, (page - 1) * PAGE_SIZE)

\* the store's actions
setResults(s, response) ==
  [s EXCEPT !.searchResults = response.results, !.isSearching = FALSE,
            !.totalResults = response.total, !.currentPage = response.page,
            !.pageSize = response.pageSize]
appendResults(s, results) ==
  [s EXCEPT !.searchResults = @ \o results, !.isSearching = FALSE]
setSearching(s, searching) == [s EXCEPT !.isSearching = searching]
setCurrentIntent(s, a) == [s EXCEPT !.currentIntent = a]
setSearchPhase(s, phase) == [s EXCEPT !.searchPhase = phase]
setPage(s, page) == [s EXCEPT !.currentPage = page]

Call(handler, at, a, page) ==
  [handler |-> handler, at |-> at, intent |-> a, page |-> page]

suspend(c, call) == [c EXCEPT !.calls = @ \cup {call}]
resume(c, call, next) == [c EXCEPT !.calls = (@ \ {call}) \cup next]

\* what the page renders
showResults == ~store.isSearching \/ component.isRefining
resultsShown == showResults /\ Len(store.searchResults) > 0

serverAndScorer ==
  <<server, nearbySales, intent, property, scoreWeights, out, collection,
    fetched, pc>>

\* runSearch up to its first await
runSearchStart(c) ==
  /\ store' = setSearchPhase(setSearching(store, TRUE), "parsing")
  /\ component' = suspend([c EXCEPT !.error = FALSE],
                          Call("runSearch", "parseIntent", NULL, 1))

\* the mount effect
Mount ==
  /\ ~component.searchTriggered
  /\ Len(store.searchResults) = 0
  /\ runSearchStart([component EXCEPT !.searchTriggered = TRUE])
  /\ UNCHANGED serverAndScorer

RunSearchParsed(call) ==
  /\ call.handler = "runSearch" /\ call.at = "parseIntent"
  /\ store' = setSearchPhase(setCurrentIntent(store, 1), "searching")
  /\ component' = resume(component, call,
                         {Call("runSearch", "searchProperties", 1, 1)})
  /\ UNCHANGED serverAndScorer

RunSearchSearched(call) ==
  /\ call.handler = "runSearch" /\ call.at = "searchProperties"
  /\ store' = setSearchPhase(store, "scoring")
  /\ component' = resume(component, call, {[call EXCEPT !.at = "pause500"]})
  /\ UNCHANGED serverAndScorer

RunSearchScored(call) ==
  /\ call.handler = "runSearch" /\ call.at = "pause500"
  /\ store' = setSearchPhase(store, "done")
  /\ component' = resume(component, call, {[call EXCEPT !.at = "pause400"]})
  /\ UNCHANGED serverAndScorer

RunSearchDone(call) ==
  /\ call.handler = "runSearch" /\ call.at = "pause400"
  /\ store' = setSearchPhase(
                setResults(store, searchResponse(call.intent, call.page)), "null")
  /\ component' = resume(component, call, {})
  /\ UNCHANGED serverAndScorer

\* parseIntent or searchProperties throws
RunSearchFailed(call) ==
  /\ call.handler = "runSearch" /\ call.at \in {"parseIntent", "searchProperties"}
  /\ store' = setSearchPhase(setSearching(store, FALSE), "null")
  /\ component' = resume([component EXCEPT !.error = TRUE], call, {})
  /\ UNCHANGED serverAndScorer

\* a click on "Show more results"
LoadMore ==
  /\ resultsShown
  /\ Len(store.searchResults) < store.totalResults
  /\ ~component.isLoadingMore
  /\ store.currentIntent # NULL
  /\ store.currentPage < MaxResultsPage
  /\ component' = suspend([component EXCEPT !.isLoadingMore = TRUE],
                          Call("loadMore", "searchProperties",
                               store.currentIntent, store.currentPage + 1))
  /\ UNCHANGED <<store, serverAndScorer>>

LoadMoreDone(call) ==
  /\ call.handler = "loadMore"
  /\ LET response == searchResponse(call.intent, call.page)
     IN  store' = setPage(appendResults(store, response.results), response.page)
  /\ component' = resume([component EXCEPT !.isLoadingMore = FALSE], call, {})
  /\ UNCHANGED serverAndScorer

LoadMoreFailed(call) ==
  /\ call.handler = "loadMore"
  /\ component' = resume([component EXCEPT !.error = TRUE,
                                           !.isLoadingMore = FALSE], call, {})
  /\ UNCHANGED <<store, serverAndScorer>>

\* a submit of RefineInput, which the component disables while isSearching
HandleRefine ==
  /\ resultsShown
  /\ ~store.isSearching
  /\ store.currentIntent = NULL \/ store.currentIntent < MaxIntents
  /\ IF store.currentIntent = NULL
     THEN runSearchStart(component)
     ELSE /\ store' = setSearching(store, TRUE)
          /\ component' = suspend([component EXCEPT !.isRefining = TRUE,
                                                    !.error = FALSE],
                                  Call("handleRefine", "refineIntent",
                                       store.currentIntent, 1))
  /\ UNCHANGED serverAndScorer

HandleRefineRefined(call) ==
  /\ call.handler = "handleRefine" /\ call.at = "refineIntent"
  /\ store' = setCurrentIntent(store, call.intent + 1)
  /\ component' = resume(component, call,
                         {Call("handleRefine", "searchProperties",
                               call.intent + 1, 1)})
  /\ UNCHANGED serverAndScorer

HandleRefineDone(call) ==
  /\ call.handler = "handleRefine" /\ call.at = "searchProperties"
  /\ store' = setResults(store, searchResponse(call.intent, call.page))
  /\ component' = resume([component EXCEPT !.isRefining = FALSE], call, {})
  /\ UNCHANGED serverAndScorer

HandleRefineFailed(call) ==
  /\ call.handler = "handleRefine"
  /\ store' = setSearching(store, FALSE)
  /\ component' = resume([component EXCEPT !.error = TRUE,
                                           !.isRefining = FALSE], call, {})
  /\ UNCHANGED serverAndScorer

InitResults ==
  /\ InitClient /\ InitServer
  /\ intent = EmptyIntent
  /\ property = <<>>
  /\ scoreWeights = <<>>
  /\ out = <<>>
  /\ collection = <<>>
  /\ fetched = <<>>
  /\ pc = "input"
  /\ nearbySales = FALSE

NextResults ==
  \/ Mount
  \/ LoadMore
  \/ HandleRefine
  \/ \E call \in component.calls :
        \/ RunSearchParsed(call)
        \/ RunSearchSearched(call)
        \/ RunSearchScored(call)
        \/ RunSearchDone(call)
        \/ RunSearchFailed(call)
        \/ LoadMoreDone(call)
        \/ LoadMoreFailed(call)
        \/ HandleRefineRefined(call)
        \/ HandleRefineDone(call)
        \/ HandleRefineFailed(call)

SpecResults == InitResults /\ [][NextResults]_vars

----------------------------------------------------------------------------
(* Properties of the results page (SpecResults)                            *)

RECURSIVE FirstPages(_, _)
FirstPages(a, n) ==
  IF n = 0 THEN <<>> ELSE FirstPages(a, n - 1) \o searchResponse(a, n).results

\* C29: the store never holds more results than totalResults, and when no
\* handler is suspended its results are the pages 1..currentPage of its
\* currentIntent.
C29_ResultsOfCurrentIntent ==
  /\ Len(store.searchResults) <= store.totalResults
  /\ (component.calls = {} /\ store.searchResults # <<>>) =>
       /\ store.currentIntent # NULL
       /\ store.searchResults = FirstPages(store.currentIntent, store.currentPage)

----------------------------------------------------------------------------
(* The data layer and the ingestion route: the module-level cache of       *)
(* real-properties.json, getProperties without Supabase, and POST          *)
(* /api/ingest.  A property is known by its id and by whether it has been  *)
(* enriched; marketId is "seattle", for which the filters keep everything. *)

MaxParcels == 2
MaxLimit == 2

seedData == <<[id |-> 0, enriched |-> FALSE]>>

parcel(id) == [id |-> id, enriched |-> FALSE]

\* what ingestKingCountyProperties can answer: parcels in ascending id order
IncomingBatches ==
  {SelectSeq([k \in 1..MaxParcels |-> parcel(k)], LAMBDA p : p.id \in ids) :
     ids \in SUBSET (1..MaxParcels)}

\* loadRealProperties(): the module after the call and the value returned
loadRealProperties(m, file) ==
  IF m.realPropertiesLoadAttempted
  THEN [module |-> m, value |-> m.cachedRealProperties]
  ELSE IF file # NoFile /\ Len(file) > 0
  THEN [module |-> [m EXCEPT !.realPropertiesLoadAttempted = TRUE,
                             !.cachedRealProperties = file],
        value |-> file]
  ELSE [module |-> [m EXCEPT !.realPropertiesLoadAttempted = TRUE],
        value |-> NullArray]

\* getProperties("seattle") with Supabase not configured
getProperties(m, file) ==
  LET loaded == loadRealProperties(m, file)
  IN  IF loaded.value # NullArray /\ Len(loaded.value) > 0
      THEN [module |-> [loaded.module EXCEPT !.activeDataSource = "real-properties"],
            value |-> loaded.value]
      ELSE [module |-> [loaded.module EXCEPT !.activeDataSource = "seed"],
            value |-> seedData]

loadExistingProperties(file) == IF file = NoFile THEN <<>> ELSE file

\* a Map keyed by id: an incoming record replaces the existing one in place,
\* a new id is appended
mergeProperties(existing, incoming) ==
  LET replaced(p) ==
        IF \E j \in 1..Len(incoming) : incoming[j].id = p.id
        THEN incoming[CHOOSE j \in 1..Len(incoming) : incoming[j].id = p.id]
        ELSE p
      known == {existing[k].id : k \in 1..Len(existing)}
  IN  arrayOf([k \in 1..Len(existing) |-> replaced(existing[k])], Len(existing))
        \o SelectSeq(incoming, LAMBDA p : p.id \notin known)

\* enrichBatch on the first min(length, limit) properties, put back by id
enrich(properties, limit) ==
  LET enrichmentBatchSize == IF Len(properties) < limit THEN Len(properties) ELSE limit
  IN  arrayOf([k \in 1..Len(properties) |->
                 IF k <= enrichmentBatchSize
                 THEN [properties[k] EXCEPT !.enriched = TRUE]
                 ELSE properties[k]], Len(properties))

\* POST /api/ingest: the file after the request and the status answered
ingest(file, action, incoming, limit) ==
  LET fetchedParcels ==
        IF action \in {"fetch_parcels", "full"}
        THEN mergeProperties(loadExistingProperties(file), incoming)
        ELSE <<>>
      afterFetch == IF action \in {"fetch_parcels", "full"} THEN fetchedParcels ELSE file
      toEnrich == IF Len(fetchedParcels) = 0
                  THEN loadExistingProperties(afterFetch) ELSE fetchedParcels
  IN  IF action \in {"enrich", "full"}
      THEN IF Len(toEnrich) = 0
           THEN [file |-> afterFetch, status |-> 400]
           ELSE [file |-> enrich(toEnrich, limit), status |-> 200]
      ELSE [file |-> afterFetch, status |-> 200]

scorerAndClient ==
  <<client, nearbySales, intent, property, scoreWeights, collection, fetched>>

GetProperties ==
  /\ LET answer == getProperties(dataModule, disk)
     IN  /\ dataModule' = answer.module
         /\ out' = answer.value
  /\ pc' = "served"
  /\ UNCHANGED <<disk, scorerAndClient>>

\* POST /api/ingest; nothing in the route or below it touches the cache
Ingest(action, incoming, limit) ==
  /\ LET response == ingest(disk, action, incoming, limit)
     IN  /\ disk' = response.file
         /\ pc' = IF response.status = 200 THEN "ingested" ELSE "rejected"
  /\ UNCHANGED <<dataModule, out, scorerAndClient>>

InitIngest ==
  /\ InitClient
  /\ InitDataModule
  /\ disk \in {NoFile, <<parcel(1)>>}
  /\ intent = EmptyIntent
  /\ property = <<>>
  /\ scoreWeights = <<>>
  /\ out = <<>>
  /\ collection = <<>>
  /\ fetched = <<>>
  /\ pc = "input"
  /\ nearbySales = FALSE

NextIngest ==
  \/ GetProperties
  \/ \E action \in {"fetch_parcels", "enrich", "full"}, incoming \in IncomingBatches,
        limit \in 1..MaxLimit : Ingest(action, incoming, limit)

SpecIngest == InitIngest /\ [][NextIngest]_vars

----------------------------------------------------------------------------
(* Properties of the data layer (SpecIngest)                               *)

\* C30: whenever getProperties has answered and real-properties.json holds
\* properties, the answer is the file's content, served as "real-properties".
C30_ServesSavedData ==
  (pc = "served" /\ disk # NoFile /\ Len(disk) > 0) =>
    /\ out = disk
    /\ dataModule.activeDataSource = "real-properties"

====
